---- MODULE Spec2Model ----
(***************************************************************************)
(* Byte-level model of the kyadb storage core: the element codec and the   *)
(* Record container of internal/storage/record.go and the slotted Page.    *)
(*                                                                         *)
(* A Go byte slice is modelled by its backing array (whose size is the     *)
(* capacity) and its length; index expressions are checked against the     *)
(* length and slice expressions against the capacity, as the Go runtime    *)
(* does.  Byte arrays and strings are held by their non-zero bytes.        *)
(* uint16 arithmetic is taken modulo 2^16.  32- and 64-bit words are       *)
(* sequences of 16-bit limbs, least significant first.                     *)
(***************************************************************************)
EXTENDS Integers, Sequences, FiniteSets, TLC

VARIABLES
    rec,      \* the record: [b, n, ok]
    ptype,    \* position -> the element type its caller sets it with
    res,      \* the last record call: [op, pos, val, err]
    setOk,    \* positions on which a setter with non-nil content succeeded
    wasted,   \* number of calls that grew the buffer and then failed
    reserved, \* position -> bytes appended when it was first set (0: none)
    page,     \* the page: [b, n, ok]
    pres,     \* the last page call: [op, slot, r, addr, err]
    held,     \* slot -> [st, r]: what the caller last did to the slot
    calls,    \* number of page calls made
    files,    \* file ID -> the file on disk
    handle,   \* the DatabaseFile the caller holds: [file, FileId, NumPages]
    fres,     \* the last file call: [op, id, pages, pageNum, numPages, out, err]
              \* and prev, the op and err of the call before it
    wrote,    \* file ID -> the pages the caller wrote last, by page number
    durable,  \* file ID -> [n, clean]: NumPages at the last MakeDurable of the
              \* file, and no page of it written since
    fcalls,   \* number of file calls made
    hm,       \* the LPHashMap: [numSlots, numItems, elements, tombstones]
    hseed,    \* key -> the 64-bit hash the seeded maphash gives the key
    hres,     \* the last hash map call: [op, key, value, out, err]
    popped,   \* the keys popped and not set since
    hcalls    \* number of hash map calls made

recordVars == <<rec, ptype, res, setOk, wasted, reserved>>
pageVars == <<page, pres, held, calls>>
fileVars == <<files, handle, fres, wrote, durable, fcalls>>
mapVars == <<hm, hseed, hres, popped, hcalls>>
vars ==
    <<rec, ptype, res, setOk, wasted, reserved, page, pres, held, calls,
      files, handle, fres, wrote, durable, fcalls,
      hm, hseed, hres, popped, hcalls>>

----------------------------------------------------------------------------
(* Element type codes *)

NullType == 0
Uint32Type == 117
Uint64Type == 118
Int32Type == 105
Int64Type == 108
Float32Type == 102
Float64Type == 100
BoolType == 98
StringType == 115
TimeType == 116
ArrayType == 97
MapType == 109

----------------------------------------------------------------------------
(* Machine arithmetic *)

U16(x) == x % 65536

Min(a, b) == IF a < b THEN a ELSE b

\* byte k (0 = least significant) of a word of 16-bit limbs: byte(value >> 8k)
WordByte(w, k) ==
    LET l == w[(k \div 2) + 1]
    IN  IF k % 2 = 0 THEN l % 256 ELSE l \div 256

WordBytes(w) == [k \in 1..(2 * Len(w)) |-> WordByte(w, k - 1)]

\* uint32(v) of a signed integer v
ToWord32(v) == <<v % 65536, (v \div 65536) % 65536>>

\* uint64(v) of a signed integer v
ToWord64(v) ==
    <<v % 65536, (v \div 65536) % 65536,
      ((v \div 65536) \div 65536) % 65536,
      (((v \div 65536) \div 65536) \div 65536) % 65536>>

\* int32(w) of a 32-bit word
FromWord32(w) ==
    IF w[2] >= 32768 THEN (w[2] - 65536) * 65536 + w[1]
    ELSE w[2] * 65536 + w[1]

\* int64(w) of a 64-bit word w; the model holds 64-bit integers of the
\* 32-bit range only, which Narrow64(w) tells
Narrow64(w) ==
    \/ w[3] = 0 /\ w[4] = 0 /\ w[2] < 32768
    \/ w[3] = 65535 /\ w[4] = 65535 /\ w[2] >= 32768

FromWord64(w) ==
    IF w[2] >= 32768 THEN (w[2] - 65536) * 65536 + w[1]
    ELSE w[2] * 65536 + w[1]

\* math.Float32bits of [s, e, m]: sign, 8-bit exponent, 23-bit mantissa
Float32bits(f) == <<f.m % 65536, f.s * 32768 + f.e * 128 + (f.m \div 65536)>>

Float32frombits(w) ==
    [s |-> w[2] \div 32768, e |-> (w[2] % 32768) \div 128,
     m |-> (w[2] % 128) * 65536 + w[1]]

\* math.Float64bits of [s, e, m]: sign, 11-bit exponent, mantissa (low 32 bits)
Float64bits(f) ==
    <<f.m % 65536, (f.m \div 65536) % 65536, 0, f.s * 32768 + f.e * 16>>

Float64frombits(w) ==
    [s |-> w[4] \div 32768, e |-> (w[4] % 32768) \div 16,
     m |-> w[2] * 65536 + w[1]]

\* time.Time.UnixNano of [sec, nsec]
UnixNano(t) == t.sec * 1000000000 + t.nsec

\* time.Unix(0, n) of an int64 n
TimeUnix(n) == [sec |-> n \div 1000000000, nsec |-> n % 1000000000]

----------------------------------------------------------------------------
(* Byte strings: [n |-> the number of bytes, d |-> the non-zero bytes by   *)
(* index, from 0].                                                         *)

\* n zero bytes
Zeros(n) == [n |-> n, d |-> [j \in {} |-> 0]]

\* the byte string of a sequence of bytes
Bytes(q) ==
    [n |-> Len(q),
     d |-> [j \in {i - 1 : i \in {i \in DOMAIN q : q[i] # 0}} |-> q[j + 1]]]

\* s[i]
ByteAt(s, i) == IF i \in DOMAIN s.d THEN s.d[i] ELSE 0

\* s with s[i] = v
SetByte(s, i, v) ==
    [s EXCEPT !.d = [j \in (IF v = 0 THEN DOMAIN @ \ {i} ELSE DOMAIN @ \cup {i})
                        |-> IF j = i THEN v ELSE @[j]]]

\* s[lo:hi]
Slice(s, lo, hi) ==
    [n |-> hi - lo,
     d |-> [j \in {i - lo : i \in {i \in DOMAIN s.d : lo <= i /\ i < hi}}
               |-> s.d[j + lo]]]

\* s after copy(s[lo:lo+k], t), for k <= t.n
Splice(s, lo, t, k) ==
    [s EXCEPT !.d = [j \in {i \in DOMAIN @ : i < lo \/ i >= lo + k}
                           \cup {i + lo : i \in {i \in DOMAIN t.d : i < k}}
                        |-> IF lo <= j /\ j < lo + k THEN t.d[j - lo] ELSE @[j]]]

\* a fresh array of n bytes holding s[:k]
Regrown(s, k, n) == [n |-> n, d |-> [j \in {i \in DOMAIN s.d : i < k} |-> s.d[j]]]

----------------------------------------------------------------------------
(* Go byte slices: R.b is the backing array (R.b.n is the capacity), R.n   *)
(* the length, R.ok is FALSE once an access has panicked.                  *)

Panic(R) == [R EXCEPT !.ok = FALSE]

\* (*r)[i] = v : an index expression, checked against the length
PutByte(R, i, v) ==
    IF ~R.ok THEN R
    ELSE IF i < R.n THEN [R EXCEPT !.b = SetByte(@, i, v)]
    ELSE Panic(R)

\* (*r)[lo:hi] : a slice expression, checked against the capacity
SliceOK(R, lo, hi) == lo <= hi /\ hi <= R.b.n

\* copy((*r)[lo:hi], src)
CopyInto(R, lo, hi, src) ==
    IF ~R.ok THEN R
    ELSE IF ~SliceOK(R, lo, hi) THEN Panic(R)
    ELSE [R EXCEPT !.b = Splice(@, lo, src, Min(hi - lo, src.n))]

\* binary.LittleEndian.PutUint16((*r)[lo:hi], v)
PutUint16(R, lo, hi, v) ==
    IF ~R.ok THEN R
    ELSE IF ~SliceOK(R, lo, hi) \/ hi - lo < 2 THEN Panic(R)
    ELSE [R EXCEPT !.b = SetByte(SetByte(@, lo, v % 256),
                                 lo + 1, (v \div 256) % 256)]

\* binary.LittleEndian.Uint16((*r)[lo:hi]); -1 stands for a panic
Uint16At(R, lo, hi) ==
    IF ~R.ok \/ ~SliceOK(R, lo, hi) \/ hi - lo < 2 THEN -1
    ELSE ByteAt(R.b, lo) + 256 * ByteAt(R.b, lo + 1)

\* the word of k limbs read from (*r)[lo:hi]; <<>> stands for a panic
WordAt(R, lo, hi, k) ==
    IF ~R.ok \/ ~SliceOK(R, lo, hi) \/ hi - lo < 2 * k THEN <<>>
    ELSE [j \in 1..k |-> ByteAt(R.b, lo + 2 * j - 2)
                         + 256 * ByteAt(R.b, lo + 2 * j - 1)]

\* the capacity runtime.growslice gives a slice of capacity oldCap that must
\* hold newLen bytes, before rounding up to an allocation size class
GrowCap(oldCap, newLen) == IF newLen > 2 * oldCap THEN newLen ELSE 2 * oldCap

\* *r = append(*r, make([]byte, k)...)
AppendZeros(R, k) ==
    IF ~R.ok THEN R
    ELSE IF R.n + k <= R.b.n
    THEN [R EXCEPT !.b = Splice(@, R.n, Zeros(k), k), !.n = R.n + k]
    ELSE [R EXCEPT !.b = Regrown(@, R.n, GrowCap(@.n, R.n + k)),
                   !.n = R.n + k]

----------------------------------------------------------------------------
(* Values of Go's "any": [k |-> dynamic type, v |-> payload].  Payloads:   *)
(* uint32 a 2-limb word, uint and uint64 a 4-limb word, int, int32 and     *)
(* int64 an integer, float32 and float64 [s, e, m], bool a BOOLEAN, string *)
(* a byte string,     time.Time [sec, nsec], Array [et, isNil, vals].    *)

Val(k, v) == [k |-> k, v |-> v]

\* errors: [kind, a, b]
Err(kind, a, b) == [kind |-> kind, a |-> a, b |-> b]
NoErr == Err("nil", 0, 0)

\* the element type writePrimitive checks a value of dynamic type k against;
\* -1 for the default branch of its type switch
KindType(k) ==
    CASE k = "uint" -> Uint32Type
      [] k = "uint32" -> Uint32Type
      [] k = "uint64" -> Uint64Type
      [] k = "int" -> Int32Type
      [] k = "int32" -> Int32Type
      [] k = "int64" -> Int64Type
      [] k = "float32" -> Float32Type
      [] k = "float64" -> Float64Type
      [] k = "bool" -> BoolType
      [] k = "string" -> StringType
      [] k = "time" -> TimeType
      [] OTHER -> -1

bytesNeededForString(str) == U16(U16(str.n) + 2)

\* [n, err]
bytesNeededForPrimitive(value) ==
    CASE value.k = "bool" -> [n |-> 1, err |-> NoErr]
      [] value.k \in {"uint", "uint32", "int", "int32", "float32"} ->
            [n |-> 4, err |-> NoErr]
      [] value.k \in {"uint64", "int64", "float64", "time"} ->
            [n |-> 8, err |-> NoErr]
      [] value.k = "string" ->
            [n |-> bytesNeededForString(value.v), err |-> NoErr]
      [] OTHER -> [n |-> 0, err |-> Err("Unsupported", 0, 0)]

\* the loop of bytesNeededForArray over vals[i..]: stops at the first
\* element whose size query fails
RECURSIVE sumPrimitives(_, _, _)
sumPrimitives(vals, i, acc) ==
    IF i > Len(vals) THEN acc
    ELSE LET e == bytesNeededForPrimitive(vals[i])
         IN  IF e.err # NoErr THEN acc
             ELSE sumPrimitives(vals, i + 1, U16(acc + e.n))

\* the err of the loop body shadows the result, so the error is always nil
bytesNeededForArray(a) ==
    [n |-> U16(sumPrimitives(a.vals, 1, 0) + 3), err |-> NoErr]

\* the loop of bytesNeededForMap over data[i..] in iteration order;
\* [n, panic]: value.(Array) panics on a value that is not an Array
RECURSIVE sumEntries(_, _, _, _)
sumEntries(m, data, i, acc) ==
    IF i > Len(data) THEN [n |-> acc, panic |-> FALSE]
    ELSE LET k == bytesNeededForPrimitive(data[i].key)
         IN  IF k.err # NoErr THEN [n |-> acc, panic |-> FALSE]
             ELSE IF m.vt = ArrayType /\ data[i].val.k # "array"
             THEN [n |-> acc, panic |-> TRUE]
             ELSE LET v == IF m.vt = ArrayType
                           THEN bytesNeededForArray(data[i].val.v)
                           ELSE bytesNeededForPrimitive(data[i].val)
                  IN  IF v.err # NoErr THEN [n |-> acc, panic |-> FALSE]
                      ELSE sumEntries(m, data, i + 1, U16(acc + U16(k.n + v.n)))

\* data is m.Data in the order this range loop visits it
bytesNeededForMap(m, data) ==
    LET t == sumEntries(m, data, 1, 0)
    IN  [n |-> U16(t.n + 4), err |-> NoErr, panic |-> t.panic]

----------------------------------------------------------------------------
(* Record header accessors *)

setLength(R, length) == PutUint16(R, 0, 2, length)

setHeaderLength(R, headerLength) == PutUint16(R, 2, 4, headerLength)

offsetForPosition(R, position) ==
    Uint16At(R, U16(4 + 2 * position), U16(6 + 2 * position))

setOffset(R, position, offset) ==
    PutUint16(R, U16(4 + 2 * position), U16(6 + 2 * position), offset)

Length(R) == Uint16At(R, 0, 2)

----------------------------------------------------------------------------
(* Codec writes *)

\* the bytes bs stored one index expression at a time from offset on
RECURSIVE putBytes(_, _, _, _)
putBytes(R, offset, bs, i) ==
    IF i > Len(bs) THEN R
    ELSE putBytes(PutByte(R, U16(offset + i - 1), bs[i]), offset, bs, i + 1)

writeUint32(R, offset, value) == putBytes(R, offset, WordBytes(value), 1)

writeUint64(R, offset, value) == putBytes(R, offset, WordBytes(value), 1)

writeBool(R, offset, value) == PutByte(R, offset, IF value THEN 1 ELSE 0)

writeString(R, offset, value) ==
    LET strLen == U16(value.n)
        R1 == PutByte(R, offset, strLen % 256)
        R2 == PutByte(R1, U16(offset + 1), strLen \div 256)
    IN  CopyInto(R2, U16(offset + 2), U16(offset + 2 + strLen), value)

\* [R, off, err]
writePrimitive(R, offset, value, expectedType) ==
    LET t == KindType(value.k)
        mismatch == [R |-> R, off |-> offset,
                     err |-> Err("TypeMismatch", expectedType, t)]
        done(R1, w) == [R |-> R1, off |-> U16(offset + w), err |-> NoErr]
    IN  IF t = -1
        THEN [R |-> R, off |-> 0, err |-> Err("Unsupported", 0, 0)]
        ELSE IF expectedType # t THEN mismatch
        ELSE CASE value.k = "uint" ->
                    done(writeUint32(R, offset, SubSeq(value.v, 1, 2)), 4)
               [] value.k = "uint32" -> done(writeUint32(R, offset, value.v), 4)
               [] value.k = "uint64" -> done(writeUint64(R, offset, value.v), 8)
               [] value.k = "int" ->
                    done(writeUint32(R, offset, ToWord32(value.v)), 4)
               [] value.k = "int32" ->
                    done(writeUint32(R, offset, ToWord32(value.v)), 4)
               [] value.k = "int64" ->
                    done(writeUint64(R, offset, ToWord64(value.v)), 8)
               [] value.k = "float32" ->
                    done(writeUint32(R, offset, Float32bits(value.v)), 4)
               [] value.k = "float64" ->
                    done(writeUint64(R, offset, Float64bits(value.v)), 8)
               [] value.k = "bool" -> done(writeBool(R, offset, value.v), 1)
               [] value.k = "string" ->
                    done(writeString(R, offset, value.v),
                         bytesNeededForString(value.v))
               [] value.k = "time" ->
                    done(writeUint64(R, offset, ToWord64(UnixNano(value.v))), 8)

\* the loop of writeArray over vals[i..]; [R, off, err]
RECURSIVE writeElements(_, _, _, _, _)
writeElements(R, offset, vals, et, i) ==
    IF i > Len(vals) \/ ~R.ok THEN [R |-> R, off |-> offset, err |-> NoErr]
    ELSE LET rest(w) == IF w.err # NoErr THEN w
                        ELSE writeElements(w.R, w.off, vals, et, i + 1)
         IN  rest(writePrimitive(R, offset, vals[i], et))

\* [R, off, err]; on an error the returned offset is the one passed in
writeArray(R, offset, a) ==
    LET n == Len(a.vals)
        R1 == PutByte(R, offset, n % 256)
        R2 == PutByte(R1, U16(offset + 1), (n \div 256) % 256)
        R3 == PutByte(R2, U16(offset + 2), a.et)
        result(w) == IF w.err # NoErr THEN [w EXCEPT !.off = offset] ELSE w
    IN  result(writeElements(R3, U16(offset + 3), a.vals, a.et, 1))

\* the loop of writeMap over data[i..] in iteration order; [R, off, err]
RECURSIVE writeEntries(_, _, _, _, _)
writeEntries(R, offset, m, data, i) ==
    IF i > Len(data) \/ ~R.ok THEN [R |-> R, off |-> offset, err |-> NoErr]
    ELSE LET rest(v) == IF v.err # NoErr THEN v
                        ELSE writeEntries(v.R, v.off, m, data, i + 1)
             value(k) ==
                 IF k.err # NoErr THEN k
                 ELSE IF m.vt = ArrayType /\ data[i].val.k # "array"
                 THEN [R |-> Panic(k.R), off |-> k.off, err |-> NoErr]
                 ELSE IF m.vt = ArrayType
                 THEN rest(writeArray(k.R, k.off, data[i].val.v))
                 ELSE rest(writePrimitive(k.R, k.off, data[i].val, m.vt))
         IN  value(writePrimitive(R, offset, data[i].key, m.kt))

\* data is m.Data in the order this range loop visits it
writeMap(R, offset, m, data) ==
    LET n == Len(data)
        R1 == PutByte(R, offset, n % 256)
        R2 == PutByte(R1, U16(offset + 1), (n \div 256) % 256)
        R3 == PutByte(R2, U16(offset + 2), m.kt)
        R4 == PutByte(R3, U16(offset + 3), m.vt)
        result(w) == IF w.err # NoErr THEN [w EXCEPT !.off = offset] ELSE w
    IN  result(writeEntries(R4, U16(offset + 4), m, data, 1))

----------------------------------------------------------------------------
(* Codec reads.  A read returns [val, off, err, panic].                    *)

Got(val, off) == [val |-> val, off |-> off, err |-> NoErr, panic |-> FALSE]

ReadPanic == [val |-> Val("none", 0), off |-> 0, err |-> NoErr, panic |-> TRUE]

\* a 64-bit word as the integer it stands for, when the model can hold it
Int64Val(k, w) ==
    IF Narrow64(w) THEN Val(k, FromWord64(w)) ELSE Val("wide", w)

readUint32(R, offset) == WordAt(R, offset, U16(offset + 4), 2)

readUint64(R, offset) == WordAt(R, offset, U16(offset + 8), 4)

\* [panic, v]
readBool(R, offset) ==
    IF ~R.ok \/ offset >= R.n THEN [panic |-> TRUE, v |-> FALSE]
    ELSE [panic |-> FALSE, v |-> ByteAt(R.b, offset) = 1]

\* [panic, v, n]: the string and its declared length
readString(R, offset) ==
    LET strLen == Uint16At(R, offset, U16(offset + 2))
        lo == U16(offset + 2)
        hi == U16(offset + 2 + strLen)
    IN  IF strLen = -1 \/ ~SliceOK(R, lo, hi)
        THEN [panic |-> TRUE, v |-> Zeros(0), n |-> 0]
        ELSE [panic |-> FALSE, v |-> Slice(R.b, lo, hi), n |-> strLen]

readPrimitive(R, offset, expectedType) ==
    LET w32 == readUint32(R, offset)
        w64 == readUint64(R, offset)
        g32(v) == IF w32 = <<>> THEN ReadPanic ELSE Got(v, U16(offset + 4))
        g64(v) == IF w64 = <<>> THEN ReadPanic ELSE Got(v, U16(offset + 8))
    IN  CASE expectedType = Uint32Type -> g32(Val("uint32", w32))
          [] expectedType = Uint64Type -> g64(Val("uint64", w64))
          [] expectedType = Int32Type ->
                IF w32 = <<>> THEN ReadPanic
                ELSE Got(Val("int32", FromWord32(w32)), U16(offset + 4))
          [] expectedType = Int64Type ->
                IF w64 = <<>> THEN ReadPanic
                ELSE Got(Int64Val("int64", w64), U16(offset + 8))
          [] expectedType = Float32Type ->
                IF w32 = <<>> THEN ReadPanic
                ELSE Got(Val("float32", Float32frombits(w32)), U16(offset + 4))
          [] expectedType = Float64Type ->
                IF w64 = <<>> THEN ReadPanic
                ELSE IF w64[3] = 0 /\ w64[4] % 16 = 0 /\ w64[2] < 32768
                THEN Got(Val("float64", Float64frombits(w64)), U16(offset + 8))
                ELSE Got(Val("wide", w64), U16(offset + 8))
          [] expectedType = BoolType ->
                LET b == readBool(R, offset)
                IN  IF b.panic THEN ReadPanic
                    ELSE Got(Val("bool", b.v), U16(offset + 1))
          [] expectedType = StringType ->
                LET str == readString(R, offset)
                IN  IF str.panic THEN ReadPanic
                    ELSE Got(Val("string", str.v), U16(U16(offset + str.n) + 2))
          [] expectedType = TimeType ->
                IF w64 = <<>> THEN ReadPanic
                ELSE IF Narrow64(w64)
                THEN Got(Val("time", TimeUnix(FromWord64(w64))), U16(offset + 8))
                ELSE Got(Val("wide", w64), U16(offset + 8))
          [] OTHER -> [val |-> Val("none", 0), off |-> 0,
                       err |-> Err("Unsupported", expectedType, 0),
                       panic |-> FALSE]

\* Array{ElementType, Values}; Values = nil is isNil
Array(et, vals) == [et |-> et, isNil |-> FALSE, vals |-> vals]
NilArray(et) == [et |-> et, isNil |-> TRUE, vals |-> <<>>]

\* the loop of readArray: elements i..arrayLen appended to vals
RECURSIVE readElements(_, _, _, _, _, _)
readElements(R, offset, et, arrayLen, i, vals) ==
    IF i > arrayLen THEN Got(Val("array", Array(et, vals)), offset)
    ELSE LET rest(e) ==
                 IF e.panic THEN ReadPanic
                 ELSE IF e.err # NoErr
                 THEN [e EXCEPT !.val =
                          Val("array", Array(et, vals \o [j \in 1..(arrayLen - i + 1) |-> Val("none", 0)]))]
                 ELSE readElements(R, e.off, et, arrayLen, i + 1, Append(vals, e.val))
         IN  rest(readPrimitive(R, offset, et))

readArray(R, offset) ==
    LET arrayLen == Uint16At(R, offset, U16(offset + 2))
        o2 == U16(offset + 2)
    IN  IF arrayLen = -1 \/ o2 >= R.n THEN ReadPanic
        ELSE readElements(R, U16(o2 + 1), ByteAt(R.b, o2), arrayLen, 1, <<>>)

\* Map{KeyType, ValueType, Data}; Data is a set of [key, val] with distinct
\* keys, Data = nil is isNil
Map(kt, vt, data) == [kt |-> kt, vt |-> vt, isNil |-> FALSE, data |-> data]
NilMap(kt, vt) == [kt |-> kt, vt |-> vt, isNil |-> TRUE, data |-> {}]

\* m.Data[key] = val
MapPut(data, key, val) ==
    {e \in data : e.key # key} \cup {[key |-> key, val |-> val]}

\* the loop of readMap: entries i..mapLen stored into data
RECURSIVE readEntries(_, _, _, _, _, _, _)
readEntries(R, offset, kt, vt, mapLen, i, data) ==
    IF i > mapLen THEN Got(Val("map", Map(kt, vt, data)), offset)
    ELSE LET rest(k, v) ==
                 IF v.panic THEN ReadPanic
                 ELSE IF v.err # NoErr
                 THEN [v EXCEPT !.val =
                          Val("map", Map(kt, vt, MapPut(data, k.val, v.val)))]
                 ELSE readEntries(R, v.off, kt, vt, mapLen, i + 1,
                                  MapPut(data, k.val, v.val))
             value(k) ==
                 IF k.panic THEN ReadPanic
                 ELSE IF k.err # NoErr
                 THEN [k EXCEPT !.val = Val("map", Map(kt, vt, data))]
                 ELSE IF vt = ArrayType THEN rest(k, readArray(R, k.off))
                 ELSE rest(k, readPrimitive(R, k.off, vt))
         IN  value(readPrimitive(R, offset, kt))

readMap(R, offset) ==
    LET mapLen == Uint16At(R, offset, U16(offset + 2))
        o2 == U16(offset + 2)
        o3 == U16(offset + 3)
    IN  IF mapLen = -1 \/ o2 >= R.n \/ o3 >= R.n THEN ReadPanic
        ELSE readEntries(R, U16(o3 + 1), ByteAt(R.b, o2), ByteAt(R.b, o3), mapLen, 1, {})

----------------------------------------------------------------------------
(* Record: construction and setters.  A setter returns [R, err]; a panic   *)
(* shows as R.ok = FALSE.                                                  *)

Ret(R, err) == [R |-> R, err |-> err]

\* NewRecord(numElements): make([]byte, length), then the two header fields
NewRecord(numElements) ==
    LET headerLength == U16(2 + 2 * numElements)
        length == U16(2 + headerLength)
        r == [b |-> Zeros(length), n |-> length, ok |-> TRUE]
    IN  setHeaderLength(setLength(r, length), headerLength)

\* the null branch shared by the fixed-width setters: reserve width bytes at
\* the tail; [R, offset]
reserveFixed(R, position, width) ==
    LET offset == Length(R)
        R1 == setLength(R, U16(offset + width))
        R2 == setOffset(R1, position, offset)
    IN  [R |-> AppendZeros(R2, width), offset |-> offset]

SetUint32(R, position, value) ==
    LET offset == offsetForPosition(R, position)
    IN  IF offset = -1 THEN Ret(Panic(R), NoErr)
        ELSE IF offset = 0
        THEN LET write(n) == Ret(writeUint32(n.R, n.offset, value), NoErr)
             IN  write(reserveFixed(R, position, 4))
        ELSE Ret(writeUint32(R, offset, value), NoErr)

SetUint64(R, position, value) ==
    LET offset == offsetForPosition(R, position)
    IN  IF offset = -1 THEN Ret(Panic(R), NoErr)
        ELSE IF offset = 0
        THEN LET write(n) == Ret(writeUint64(n.R, n.offset, value), NoErr)
             IN  write(reserveFixed(R, position, 8))
        ELSE Ret(writeUint64(R, offset, value), NoErr)

SetInt32(R, position, value) ==
    SetUint32(R, position, ToWord32(value))

SetInt64(R, position, value) ==
    SetUint64(R, position, ToWord64(value))

SetFloat32(R, position, value) ==
    SetUint32(R, position, Float32bits(value))

SetFloat64(R, position, value) ==
    SetUint64(R, position, Float64bits(value))

SetBool(R, position, value) ==
    LET offset == offsetForPosition(R, position)
    IN  IF offset = -1 THEN Ret(Panic(R), NoErr)
        ELSE IF offset = 0
        THEN LET write(n) == Ret(writeBool(n.R, n.offset, value), NoErr)
             IN  write(reserveFixed(R, position, 1))
        ELSE Ret(writeBool(R, offset, value), NoErr)

SetTime(R, position, value) ==
    SetUint64(R, position, ToWord64(UnixNano(value)))

\* SetString with an overflow test that lets one byte too many through
SetStringOffByOne(R, position, value) ==
    LET offset == offsetForPosition(R, position)
    IN  IF offset = -1 THEN Ret(Panic(R), NoErr)
        ELSE IF offset = 0
        THEN LET o == Length(R)
                 numBytes == bytesNeededForString(value)
                 R1 == AppendZeros(R, numBytes)
                 R2 == writeString(R1, o, value)
                 R3 == setOffset(R2, position, o)
             IN  Ret(setLength(R3, U16(o + numBytes)), NoErr)
        ELSE LET currentLength == Uint16At(R, offset, U16(offset + 2))
                 requiredLength == U16(value.n)
             IN  IF currentLength = -1 THEN Ret(Panic(R), NoErr)
                 ELSE IF currentLength + 1 < requiredLength
                 THEN Ret(R, Err("WriteOverflow", currentLength, requiredLength))
                 ELSE Ret(writeString(R, offset, value), NoErr)

SetString(R, position, value) ==
    LET offset == offsetForPosition(R, position)
    IN  IF offset = -1 THEN Ret(Panic(R), NoErr)
        ELSE IF offset = 0
        THEN LET o == Length(R)
                 numBytes == bytesNeededForString(value)
                 R1 == AppendZeros(R, numBytes)
                 R2 == writeString(R1, o, value)
                 R3 == setOffset(R2, position, o)
             IN  Ret(setLength(R3, U16(o + numBytes)), NoErr)
        ELSE LET currentLength == Uint16At(R, offset, U16(offset + 2))
                 requiredLength == U16(value.n)
             IN  IF currentLength = -1 THEN Ret(Panic(R), NoErr)
                 ELSE IF currentLength < requiredLength
                 THEN Ret(R, Err("WriteOverflow", currentLength, requiredLength))
                 ELSE Ret(writeString(R, offset, value), NoErr)

\* SetArray without the test for an element type of map
SetArrayMapElements(R, position, a) ==
    IF a.et = ArrayType THEN Ret(R, Err("InvalidElementType", a.et, 0))
    ELSE IF a.isNil THEN Ret(R, NoErr)
    ELSE
    LET offset == offsetForPosition(R, position)
    IN  IF offset = -1 THEN Ret(Panic(R), NoErr)
        ELSE IF offset = 0
        THEN LET o == Length(R)
                 numBytes == bytesNeededForArray(a).n
                 R1 == AppendZeros(R, numBytes)
                 finish(w) ==
                     IF w.err # NoErr THEN Ret(w.R, w.err)
                     ELSE Ret(setLength(setOffset(w.R, position, o),
                                        U16(o + numBytes)), NoErr)
             IN  finish(writeArray(R1, o, a))
        ELSE LET o2 == U16(offset + 2)
                 currentLength == Uint16At(R, offset, U16(offset + 2))
                 requiredLength == U16(Len(a.vals))
             IN  IF o2 >= R.n THEN Ret(Panic(R), NoErr)
                 ELSE IF ByteAt(R.b, o2) # a.et
                 THEN Ret(R, Err("TypeMismatch", ByteAt(R.b, o2), a.et))
                 ELSE IF currentLength = -1 THEN Ret(Panic(R), NoErr)
                 ELSE IF currentLength < requiredLength
                 THEN Ret(R, Err("WriteOverflow", currentLength, requiredLength))
                 ELSE LET result(w) == Ret(w.R, w.err)
                      IN  result(writeArray(R, offset, a))

SetArray(R, position, a) ==
    IF a.et = ArrayType THEN Ret(R, Err("InvalidElementType", a.et, 0))
    ELSE IF a.et = MapType THEN Ret(R, Err("InvalidElementType", a.et, 0))
    ELSE IF a.isNil THEN Ret(R, NoErr)
    ELSE
    LET offset == offsetForPosition(R, position)
    IN  IF offset = -1 THEN Ret(Panic(R), NoErr)
        ELSE IF offset = 0
        THEN LET o == Length(R)
                 numBytes == bytesNeededForArray(a).n
                 R1 == AppendZeros(R, numBytes)
                 finish(w) ==
                     IF w.err # NoErr THEN Ret(w.R, w.err)
                     ELSE Ret(setLength(setOffset(w.R, position, o),
                                        U16(o + numBytes)), NoErr)
             IN  finish(writeArray(R1, o, a))
        ELSE LET o2 == U16(offset + 2)
                 currentLength == Uint16At(R, offset, U16(offset + 2))
                 requiredLength == U16(Len(a.vals))
             IN  IF o2 >= R.n THEN Ret(Panic(R), NoErr)
                 ELSE IF ByteAt(R.b, o2) # a.et
                 THEN Ret(R, Err("TypeMismatch", ByteAt(R.b, o2), a.et))
                 ELSE IF currentLength = -1 THEN Ret(Panic(R), NoErr)
                 ELSE IF currentLength < requiredLength
                 THEN Ret(R, Err("WriteOverflow", currentLength, requiredLength))
                 ELSE LET result(w) == Ret(w.R, w.err)
                      IN  result(writeArray(R, offset, a))

\* SetMap without the test for nil Data: a nil map is written as an empty one
SetMapNilAsEmpty(R, position, m, sized, written) ==
    IF m.kt = ArrayType THEN Ret(R, Err("InvalidKeyType", m.kt, 0))
    ELSE IF m.kt = MapType THEN Ret(R, Err("InvalidKeyType", m.kt, 0))
    ELSE IF m.vt = MapType THEN Ret(R, Err("InvalidValueType", m.vt, 0))
    ELSE
    LET offset == offsetForPosition(R, position)
    IN  IF offset = -1 THEN Ret(Panic(R), NoErr)
        ELSE IF offset = 0
        THEN LET o == Length(R)
                 need == bytesNeededForMap(m, sized)
                 R1 == AppendZeros(R, need.n)
                 finish(w) ==
                     IF w.err # NoErr THEN Ret(w.R, w.err)
                     ELSE Ret(setLength(setOffset(w.R, position, o),
                                        U16(o + need.n)), NoErr)
             IN  IF need.panic THEN Ret(Panic(R), NoErr)
                 ELSE finish(writeMap(R1, o, m, written))
        ELSE LET o2 == U16(offset + 2)
                 o3 == U16(offset + 3)
                 currentLength == Uint16At(R, offset, U16(offset + 2))
                 requiredLength == U16(Cardinality(m.data))
             IN  IF o2 >= R.n THEN Ret(Panic(R), NoErr)
                 ELSE IF ByteAt(R.b, o2) # m.kt
                 THEN Ret(R, Err("KeyTypeMismatch", ByteAt(R.b, o2), m.kt))
                 ELSE IF o3 >= R.n THEN Ret(Panic(R), NoErr)
                 ELSE IF ByteAt(R.b, o3) # m.vt
                 THEN Ret(R, Err("ValueTypeMismatch", ByteAt(R.b, o3), m.vt))
                 ELSE IF currentLength = -1 THEN Ret(Panic(R), NoErr)
                 ELSE IF currentLength < requiredLength
                 THEN Ret(R, Err("WriteOverflow", currentLength, requiredLength))
                 ELSE LET result(w) == Ret(w.R, w.err)
                      IN  result(writeMap(R, offset, m, written))

\* sized is m.Data in the order bytesNeededForMap ranges over it, written
\* the order writeMap does
SetMap(R, position, m, sized, written) ==
    IF m.kt = ArrayType THEN Ret(R, Err("InvalidKeyType", m.kt, 0))
    ELSE IF m.kt = MapType THEN Ret(R, Err("InvalidKeyType", m.kt, 0))
    ELSE IF m.vt = MapType THEN Ret(R, Err("InvalidValueType", m.vt, 0))
    ELSE IF m.isNil THEN Ret(R, NoErr)
    ELSE
    LET offset == offsetForPosition(R, position)
    IN  IF offset = -1 THEN Ret(Panic(R), NoErr)
        ELSE IF offset = 0
        THEN LET o == Length(R)
                 need == bytesNeededForMap(m, sized)
                 R1 == AppendZeros(R, need.n)
                 finish(w) ==
                     IF w.err # NoErr THEN Ret(w.R, w.err)
                     ELSE Ret(setLength(setOffset(w.R, position, o),
                                        U16(o + need.n)), NoErr)
             IN  IF need.panic THEN Ret(Panic(R), NoErr)
                 ELSE finish(writeMap(R1, o, m, written))
        ELSE LET o2 == U16(offset + 2)
                 o3 == U16(offset + 3)
                 currentLength == Uint16At(R, offset, U16(offset + 2))
                 requiredLength == U16(Cardinality(m.data))
             IN  IF o2 >= R.n THEN Ret(Panic(R), NoErr)
                 ELSE IF ByteAt(R.b, o2) # m.kt
                 THEN Ret(R, Err("KeyTypeMismatch", ByteAt(R.b, o2), m.kt))
                 ELSE IF o3 >= R.n THEN Ret(Panic(R), NoErr)
                 ELSE IF ByteAt(R.b, o3) # m.vt
                 THEN Ret(R, Err("ValueTypeMismatch", ByteAt(R.b, o3), m.vt))
                 ELSE IF currentLength = -1 THEN Ret(Panic(R), NoErr)
                 ELSE IF currentLength < requiredLength
                 THEN Ret(R, Err("WriteOverflow", currentLength, requiredLength))
                 ELSE LET result(w) == Ret(w.R, w.err)
                      IN  result(writeMap(R, offset, m, written))

----------------------------------------------------------------------------
(* Record getters: [isNull, value, err, panic]                             *)

GetRes(isNull, value) ==
    [isNull |-> isNull, value |-> value, err |-> NoErr, panic |-> FALSE]

GetPanic ==
    [isNull |-> FALSE, value |-> Val("none", 0), err |-> NoErr, panic |-> TRUE]

\* the zero value a getter returns for a null position
NoValue == Val("zero", 0)

\* a getter that decodes one primitive of element type t at the offset;
\* the fixed-width getters slice (*r)[offset:offset+w] as readPrimitive does
getPrimitive(R, position, t) ==
    LET offset == offsetForPosition(R, position)
        result(g) == IF g.panic THEN GetPanic ELSE GetRes(FALSE, g.val)
    IN  IF offset = -1 THEN GetPanic
        ELSE IF offset = 0 THEN GetRes(TRUE, NoValue)
        ELSE result(readPrimitive(R, offset, t))

GetUint32(R, position) == getPrimitive(R, position, Uint32Type)
GetUint64(R, position) == getPrimitive(R, position, Uint64Type)
GetInt32(R, position) == getPrimitive(R, position, Int32Type)
GetInt64(R, position) == getPrimitive(R, position, Int64Type)
GetFloat32(R, position) == getPrimitive(R, position, Float32Type)
GetFloat64(R, position) == getPrimitive(R, position, Float64Type)
GetTime(R, position) == getPrimitive(R, position, TimeType)
GetString(R, position) == getPrimitive(R, position, StringType)

\* value = (*r)[offset] != 0
GetBool(R, position) ==
    LET offset == offsetForPosition(R, position)
    IN  IF offset = -1 THEN GetPanic
        ELSE IF offset = 0 THEN GetRes(TRUE, NoValue)
        ELSE IF offset >= R.n THEN GetPanic
        ELSE GetRes(FALSE, Val("bool", ByteAt(R.b, offset) # 0))

GetArray(R, position) ==
    LET offset == offsetForPosition(R, position)
        result(g) ==
            IF g.panic THEN GetPanic
            ELSE [isNull |-> FALSE, value |-> g.val, err |-> g.err, panic |-> FALSE]
    IN  IF offset = -1 THEN GetPanic
        ELSE IF offset = 0 THEN GetRes(TRUE, NoValue)
        ELSE result(readArray(R, offset))

GetMap(R, position) ==
    LET offset == offsetForPosition(R, position)
        result(g) ==
            IF g.panic THEN GetPanic
            ELSE [isNull |-> FALSE, value |-> g.val, err |-> g.err, panic |-> FALSE]
    IN  IF offset = -1 THEN GetPanic
        ELSE IF offset = 0 THEN GetRes(TRUE, NoValue)
        ELSE result(readMap(R, offset))

\* the getter of the element type t
Get(R, position, t) ==
    CASE t = BoolType -> GetBool(R, position)
      [] t = ArrayType -> GetArray(R, position)
      [] t = MapType -> GetMap(R, position)
      [] OTHER -> getPrimitive(R, position, t)

----------------------------------------------------------------------------
(* Page: slot entries.  A slotEntry is a 64-bit word of four 16-bit limbs; *)
(* a RecordAddress is [FileID, PageNum, SlotNum] with PageNum a 32-bit     *)
(* word.                                                                   *)

PageSize == 8192

\* slotEntry(offset) of a uint16 offset
slotEntry(offset) == <<offset, 0, 0, 0>>

\* recordAddressToSlotEntry with the forwarding sentinel in the top 16 bits
recordAddressToSlotEntrySentinel(addr) ==
    <<addr.SlotNum, addr.PageNum[1], addr.PageNum[2], 65535>>

recordAddressToSlotEntry(addr) ==
    <<addr.SlotNum, addr.PageNum[1], addr.PageNum[2], addr.FileID>>

slotEntryToRecordAddress(offset) ==
    [FileID |-> offset[4], PageNum |-> <<offset[2], offset[3]>>,
     SlotNum |-> offset[1]]

isForwardedAddress(s) == s[4] = 65535

\* binary.LittleEndian.PutUint64((*p)[lo:hi], w)
PutUint64(P, lo, hi, w) ==
    IF ~P.ok THEN P
    ELSE IF ~SliceOK(P, lo, hi) \/ hi - lo < 8 THEN Panic(P)
    ELSE [P EXCEPT !.b = Splice(@, lo, Bytes(WordBytes(w)), 8)]

setNumSlots(P, numSlots) == PutUint16(P, 0, 2, numSlots)

getNumSlots(P) == Uint16At(P, 0, 2)

setFreeOffset(P, offset) == PutUint16(P, 2, 4, offset)

getFreeOffset(P) == Uint16At(P, 2, 4)

addSlot(P, slot) ==
    LET numSlots == getNumSlots(P)
    IN  setNumSlots(PutUint64(P, U16(4 + 8 * numSlots), PageSize, slot),
                    U16(numSlots + 1))

setSlot(P, slotNum, slot) == PutUint64(P, U16(4 + 8 * slotNum), PageSize, slot)

\* <<>> stands for a panic
getSlot(P, slotNum) == WordAt(P, U16(4 + 8 * slotNum), PageSize, 4)

NewPage ==
    setFreeOffset(setNumSlots([b |-> Zeros(PageSize), n |-> PageSize,
                               ok |-> TRUE], 0), PageSize)

----------------------------------------------------------------------------
(* Page operations.  A panic shows as P.ok = FALSE or panic = TRUE.        *)

NoAddr == [FileID |-> -1, PageNum |-> <<>>, SlotNum |-> -1]

\* *record : the bytes of the slice, its length long
RecordBytes(r) == Slice(r.b, 0, r.n)

\* the in-page offset a local slot entry indexes the page with; an entry
\* with a bit above the low 16 is beyond every page
LocalOffset(entry) ==
    IF entry[2] = 0 /\ entry[3] = 0 /\ entry[4] = 0 THEN entry[1]
    ELSE PageSize + 1

\* AddRecord returning the new number of slots as the slot number
AddRecordCountAsSlot(P, record) ==
    LET offset == getFreeOffset(P)
        numSlots == getNumSlots(P)
        newOffset == U16(offset - Length(record))
        headerLength == U16(4 + 8 * numSlots)
        newHeaderEnd == U16(headerLength + 8)
        written(P1) == setFreeOffset(addSlot(P1, slotEntry(newOffset)), newOffset)
    IN  IF Length(record) = -1 THEN [P |-> Panic(P), slot |-> 0, err |-> NoErr]
        ELSE IF newOffset < newHeaderEnd
        THEN [P |-> P, slot |-> 0,
              err |-> Err("PageFull", U16(offset - newHeaderEnd), Length(record))]
        ELSE [P |-> written(CopyInto(P, newOffset, offset, RecordBytes(record))),
              slot |-> numSlots + 1, err |-> NoErr]

\* [P, slot, err]
AddRecord(P, record) ==
    LET offset == getFreeOffset(P)
        numSlots == getNumSlots(P)
        newOffset == U16(offset - Length(record))
        headerLength == U16(4 + 8 * numSlots)
        newHeaderEnd == U16(headerLength + 8)
        written(P1) == setFreeOffset(addSlot(P1, slotEntry(newOffset)), newOffset)
    IN  IF Length(record) = -1 THEN [P |-> Panic(P), slot |-> 0, err |-> NoErr]
        ELSE IF newOffset < newHeaderEnd
        THEN [P |-> P, slot |-> 0,
              err |-> Err("PageFull", U16(offset - newHeaderEnd), Length(record))]
        ELSE [P |-> written(CopyInto(P, newOffset, offset, RecordBytes(record))),
              slot |-> numSlots, err |-> NoErr]

\* the results of GetRecord: [hasRec, rec, addr, err, panic]
GetRecordPanic ==
    [hasRec |-> FALSE, rec |-> Zeros(0), addr |-> NoAddr, err |-> NoErr,
     panic |-> TRUE]

GetRecord(P, slotNum) ==
    LET found(lo, recordLength) ==
            IF recordLength = -1 \/ ~SliceOK(P, lo, U16(lo + recordLength))
            THEN GetRecordPanic
            ELSE [hasRec |-> TRUE, rec |-> Slice(P.b, lo, U16(lo + recordLength)),
                  addr |-> NoAddr, err |-> NoErr, panic |-> FALSE]
        local(lo) == found(lo, Uint16At(P, lo, lo + 2))
        get(entry) ==
            IF entry = <<>> THEN GetRecordPanic
            ELSE IF entry = <<0, 0, 0, 0>>
            THEN [hasRec |-> FALSE, rec |-> Zeros(0), addr |-> NoAddr,
                  err |-> Err("RecordDeleted", slotNum, 0), panic |-> FALSE]
            ELSE IF isForwardedAddress(entry)
            THEN [hasRec |-> FALSE, rec |-> Zeros(0),
                  addr |-> slotEntryToRecordAddress(entry), err |-> NoErr,
                  panic |-> FALSE]
            ELSE local(LocalOffset(entry))
    IN  get(getSlot(P, slotNum))

SetForwardedAddress(P, slotNum, addr) ==
    setSlot(P, slotNum, recordAddressToSlotEntry(addr))

\* [P, addr, err]
UpdateRecord(P, slotNum, record) ==
    LET ret(P1, addr, err) == [P |-> P1, addr |-> addr, err |-> err]
        \* the copy over the old location that ends both branches
        over(P1, lo, recordLength) ==
            ret(CopyInto(P1, lo, U16(lo + recordLength), RecordBytes(record)),
                NoAddr, NoErr)
        moved(P1, newOffset) ==
            setFreeOffset(setSlot(P1, slotNum, slotEntry(newOffset)), newOffset)
        relocate(lo, recordLength, offset, newOffset, newHeaderEnd) ==
            IF newOffset < newHeaderEnd
            THEN ret(P, NoAddr, Err("PageFull", U16(offset - newHeaderEnd),
                                    Length(record)))
            ELSE over(moved(CopyInto(P, newOffset, PageSize, RecordBytes(record)),
                            newOffset),
                      lo, recordLength)
        local(lo, recordLength) ==
            IF recordLength = -1 \/ Length(record) = -1
            THEN ret(Panic(P), NoAddr, NoErr)
            ELSE IF recordLength < Length(record)
            THEN relocate(lo, recordLength, getFreeOffset(P),
                          U16(getFreeOffset(P) - Length(record)),
                          U16(U16(4 + 8 * getNumSlots(P)) + 8))
            ELSE over(P, lo, recordLength)
        update(entry) ==
            IF entry = <<>> THEN ret(Panic(P), NoAddr, NoErr)
            ELSE IF entry = <<0, 0, 0, 0>>
            THEN ret(P, NoAddr, Err("RecordDeleted", slotNum, 0))
            ELSE IF isForwardedAddress(entry)
            THEN ret(P, slotEntryToRecordAddress(entry), NoErr)
            ELSE local(LocalOffset(entry),
                       Uint16At(P, LocalOffset(entry), LocalOffset(entry) + 2))
    IN  update(getSlot(P, slotNum))

DeleteRecord(P, slotNum) == setSlot(P, slotNum, <<0, 0, 0, 0>>)

----------------------------------------------------------------------------
(* Database files.  A file on disk is [exists, hdr, size, d]: hdr the bytes *)
(* of its header, size the number of pages it physically holds after the   *)
(* header, d the pages that are not all zero, by page number.  A file      *)
(* offset is always 6 + k * PageSize for a page number k, so offsets are   *)
(* held as page numbers; the code computes them in uint32, where           *)
(* pageNum * PageSize wraps every WrapPages pages.                         *)

MaxPagesPerFile == 262144
WrapPages == 524288

\* element.WriteUint16(b, offset, value)
WriteUint16(R, offset, value) ==
    PutByte(PutByte(R, offset, value % 256), U16(offset + 1),
            (value \div 256) % 256)

\* element.WriteUint32(b, offset, value)
WriteUint32(R, offset, value) ==
    PutByte(PutByte(PutByte(PutByte(R, offset, value % 256),
                            U16(offset + 1), (value \div 256) % 256),
                    U16(offset + 2), (value \div 65536) % 256),
            U16(offset + 3), (value \div 16777216) % 256)

\* element.ReadUint32(b, offset); -1 stands for a panic
ReadUint32(R, offset) ==
    LET value(w) == IF w = <<>> THEN -1 ELSE w[1] + 65536 * w[2]
    IN  value(WordAt(R, offset, U16(offset + 4), 2))

\* make([]byte, n)
MakeBytes(n) == [b |-> Zeros(n), n |-> n, ok |-> TRUE]

NoFile == [exists |-> FALSE, hdr |-> Zeros(0), size |-> 0, d |-> [k \in {} |-> 0]]

\* os.OpenFile(path, O_CREATE|O_EXCL|O_RDWR, perm) on a path with no file
CreatedFile == [NoFile EXCEPT !.exists = TRUE]

\* the page number of the file offset the code computes for page pageNum
OffsetPage(pageNum) == pageNum % WrapPages

\* file.WriteAt(header, 0)
HeaderWriteAt(f, header) == [f EXCEPT !.hdr = RecordBytes(header)]

\* file.WriteAt(page[:], offset) with offset = 6 + k * PageSize
PageWriteAt(f, k, pg) ==
    [f EXCEPT !.size = IF k + 1 > @ THEN k + 1 ELSE @,
              !.d = [j \in (IF pg = Zeros(PageSize) THEN DOMAIN @ \ {k}
                            ELSE DOMAIN @ \cup {k})
                       |-> IF j = k THEN pg ELSE @[j]]]

\* file.ReadAt(pages[i][:], offset) with offset = 6 + k * PageSize:
\* [page, eof]; a read past the end of the file returns io.EOF
PageReadAt(f, k) ==
    IF k >= f.size THEN [page |-> Zeros(PageSize), eof |-> TRUE]
    ELSE [page |-> IF k \in DOMAIN f.d THEN f.d[k] ELSE Zeros(PageSize),
          eof |-> FALSE]

\* a DatabaseFile: the file is named by its ID; file = -1 is no handle
DatabaseFile(file, FileId, NumPages) ==
    [file |-> file, FileId |-> FileId, NumPages |-> NumPages]

NoHandle == DatabaseFile(-1, 0, 0)

\* [disk, err]
MakeDurable(disk, dbFile) ==
    LET header ==
            WriteUint32(WriteUint16(MakeBytes(6), 0, dbFile.FileId), 2,
                        dbFile.NumPages)
    IN  [disk |-> [disk EXCEPT ![dbFile.file] = HeaderWriteAt(@, header)],
         err |-> NoErr]

\* NewDatabaseFile opening the file without O_EXCL
NewDatabaseFileNoExcl(disk, fileID) ==
    [disk |-> MakeDurable([disk EXCEPT ![fileID].exists = TRUE],
                          DatabaseFile(fileID, fileID, 0)).disk,
     dbFile |-> DatabaseFile(fileID, fileID, 0), err |-> NoErr]

\* [disk, dbFile, err]
NewDatabaseFile(disk, fileID) ==
    IF disk[fileID].exists
    THEN [disk |-> disk, dbFile |-> NoHandle, err |-> Err("exist", fileID, 0)]
    ELSE [disk |-> MakeDurable([disk EXCEPT ![fileID] = CreatedFile],
                               DatabaseFile(fileID, fileID, 0)).disk,
          dbFile |-> DatabaseFile(fileID, fileID, 0), err |-> NoErr]

\* [dbFile, err]: the handle after loadNumPages, which reads 4 bytes at
\* offset 2 of the file
OpenDatabaseFile(disk, fileID) ==
    IF ~disk[fileID].exists
    THEN [dbFile |-> NoHandle, err |-> Err("notexist", fileID, 0)]
    ELSE IF disk[fileID].hdr.n < 6
    THEN [dbFile |-> NoHandle, err |-> Err("EOF", 0, 0)]
    ELSE [dbFile |-> DatabaseFile(fileID, fileID,
                                  ReadUint32([b |-> Slice(disk[fileID].hdr, 2, 6),
                                              n |-> 4, ok |-> TRUE], 0)),
          err |-> NoErr]

\* [disk, err]
DeleteDatabaseFile(disk, fileID) ==
    IF ~disk[fileID].exists
    THEN [disk |-> disk, err |-> Err("notexist", fileID, 0)]
    ELSE [disk |-> [disk EXCEPT ![fileID] = NoFile], err |-> NoErr]

\* the file after the loop of WriteAt calls that writes pages from the
\* offset of page number k on, offset += PageSize being taken in uint32
RECURSIVE WriteAll(_, _, _)
WriteAll(f, k, pages) ==
    IF pages = <<>> THEN f
    ELSE WriteAll(PageWriteAt(f, k, Head(pages)), (k + 1) % WrapPages,
                  Tail(pages))

\* [disk, dbFile, pageNumbers, err]
AppendPages(disk, dbFile, pages) ==
    IF dbFile.NumPages = MaxPagesPerFile
    THEN [disk |-> disk, dbFile |-> dbFile, pageNumbers |-> <<>>,
          err |-> Err("FileFull", 0, 0)]
    ELSE [disk |-> [disk EXCEPT ![dbFile.file] =
                        WriteAll(@, OffsetPage(dbFile.NumPages), pages)],
          dbFile |-> [dbFile EXCEPT !.NumPages = @ + 1],
          pageNumbers |-> [i \in DOMAIN pages |-> dbFile.NumPages + (i - 1)],
          err |-> NoErr]

\* [disk, numWritten, err]
WritePages(disk, dbFile, pages, pageNum) ==
    [disk |-> [disk EXCEPT ![dbFile.file] =
                    WriteAll(@, OffsetPage(pageNum), pages)],
     numWritten |-> Len(pages), err |-> NoErr]

\* [pages, err]; pages = <<>> with an error is the nil result
ReadPages(disk, dbFile, pageNum, numPages) ==
    LET at(i) == PageReadAt(disk[dbFile.file],
                            (OffsetPage(pageNum) + i) % WrapPages)
    IN  IF \E i \in 0..(numPages - 1) : at(i).eof
        THEN [pages |-> <<>>, err |-> Err("EOF", 0, 0)]
        ELSE [pages |-> [i \in 1..numPages |-> at(i - 1).page], err |-> NoErr]

----------------------------------------------------------------------------
(* LPHashMap: a hash map with linear probing.  elements maps the slots     *)
(* 0 .. numSlots - 1 to an element or nil, tombstones is the set of slots  *)
(* of popped elements.  hash64 maps a key to what Sum64 returns for it     *)
(* under the seed the map was made with.  Keys are uint64 and values are   *)
(* strings, as in the tests, whose Set calls return no error: hashMod      *)
(* encodes such a key and returns its hash modulo numSlots.                *)

NilElement == [nil |-> TRUE, key |-> 0, value |-> ""]

LPHashMapElement(key, value) == [nil |-> FALSE, key |-> key, value |-> value]

NewLPHashMap(numSlots) ==
    [numSlots |-> numSlots, numItems |-> 0,
     elements |-> [i \in 0..(numSlots - 1) |-> NilElement],
     tombstones |-> {}]

hashMod(key, hash64, numSlots) == hash64[key] % numSlots

RECURSIVE LPHashMapSet(_, _, _, _)
RECURSIVE setFrom(_, _, _, _, _, _)
RECURSIVE doubleSlots(_, _)
RECURSIVE rehash(_, _, _, _)

\* the loop of doubleSlots over currentElements[i..]
rehash(h, hash64, currentElements, i) ==
    IF i \notin DOMAIN currentElements THEN h
    ELSE IF currentElements[i].nil THEN rehash(h, hash64, currentElements, i + 1)
    ELSE rehash(LPHashMapSet(h, hash64, currentElements[i].key,
                             currentElements[i].value),
                hash64, currentElements, i + 1)

doubleSlots(h, hash64) ==
    rehash([h EXCEPT !.numSlots = 2 * @,
                     !.elements = [i \in 0..(2 * h.numSlots - 1) |-> NilElement],
                     !.numItems = 0],
           hash64, h.elements, 0)

\* the loop of Set from rightSlot on, and the store that follows it
setFrom(h, hash64, key, value, slot, rightSlot) ==
    LET nextSlot == (rightSlot + 1) % h.numSlots
        store(g) == [g EXCEPT !.elements[rightSlot] = LPHashMapElement(key, value),
                              !.numItems = @ + 1]
    IN  IF h.elements[rightSlot].nil THEN store(h)
        ELSE IF h.elements[rightSlot].key = key THEN store(h)
        ELSE IF rightSlot \in h.tombstones
        THEN store([h EXCEPT !.tombstones = @ \ {rightSlot}])
        ELSE IF nextSlot = slot
        THEN LPHashMapSet(doubleSlots(h, hash64), hash64, key, value)
        ELSE setFrom(h, hash64, key, value, slot, nextSlot)

\* the map after h.Set(key, value), which returns nil
LPHashMapSet(h, hash64, key, value) ==
    setFrom(h, hash64, key, value, hashMod(key, hash64, h.numSlots),
            hashMod(key, hash64, h.numSlots))

RECURSIVE hasFrom(_, _, _, _)
\* the loop of Has from rightSlot on
hasFrom(h, key, slot, rightSlot) ==
    LET nextSlot == (rightSlot + 1) % h.numSlots
    IN  IF h.elements[rightSlot].nil THEN FALSE
        ELSE IF h.elements[rightSlot].key = key
        THEN rightSlot \notin h.tombstones
        ELSE IF nextSlot = slot THEN FALSE
        ELSE hasFrom(h, key, slot, nextSlot)

LPHashMapHas(h, hash64, key) ==
    hasFrom(h, key, hashMod(key, hash64, h.numSlots),
            hashMod(key, hash64, h.numSlots))

RECURSIVE getFrom(_, _, _, _)
\* the loop of getValueAndSlot from rightSlot on
getFrom(h, key, slot, rightSlot) ==
    LET nextSlot == (rightSlot + 1) % h.numSlots
        notFound == [value |-> "", slot |-> 0, err |-> Err("KeyNotFound", key, 0)]
    IN  IF h.elements[rightSlot].nil THEN notFound
        ELSE IF h.elements[rightSlot].key = key
        THEN IF rightSlot \in h.tombstones THEN notFound
             ELSE [value |-> h.elements[rightSlot].value, slot |-> rightSlot,
                   err |-> NoErr]
        ELSE IF nextSlot = slot THEN notFound
        ELSE getFrom(h, key, slot, nextSlot)

\* [value, slot, err]
getValueAndSlot(h, hash64, key) ==
    getFrom(h, key, hashMod(key, hash64, h.numSlots),
            hashMod(key, hash64, h.numSlots))

\* [value, err]
LPHashMapGet(h, hash64, key) ==
    LET result(g) == [value |-> g.value, err |-> g.err]
    IN  result(getValueAndSlot(h, hash64, key))

\* [h, value, err]
LPHashMapPop(h, hash64, key) ==
    LET result(g) ==
            IF g.err # NoErr THEN [h |-> h, value |-> g.value, err |-> g.err]
            ELSE [h |-> [h EXCEPT !.tombstones = @ \cup {g.slot},
                                  !.numItems = @ - 1],
                  value |-> g.value, err |-> NoErr]
    IN  result(getValueAndSlot(h, hash64, key))

LPHashMapLength(h) == h.numItems

LPHashMapClear(h) ==
    [h EXCEPT !.numItems = 0,
              !.elements = [i \in 0..(h.numSlots - 1) |-> NilElement],
              !.tombstones = {}]

----------------------------------------------------------------------------
(* Inputs.  A column is what the caller keeps in one position: the element *)
(* type t it sets the position with and the values vals it sets it to.     *)

MaxN == 2
MaxWasted == 1

Str(s) == Val("string", s)
IntV(n) == Val("int", n)
Arr(a) == Val("array", a)
Entry(k, v) == [key |-> k, val |-> v]
Col(t, vals) == [t |-> t, vals |-> vals]

hi == Bytes(<<104, 105>>)
hello == Bytes(<<104, 101, 108, 108, 111>>)
world == Bytes(<<119, 111, 114, 108, 100, 33>>)

Uint32s == {<<10, 0>>, <<65535, 65535>>}
Uint64s == {<<1, 2, 3, 4>>, <<0, 0, 0, 32768>>}
Int32s == {-1, 7}
Int64s == {-2, 70000}
Float32s == {[s |-> 1, e |-> 127, m |-> 4194304], [s |-> 0, e |-> 0, m |-> 1]}
Float64s == {[s |-> 0, e |-> 1023, m |-> 0], [s |-> 1, e |-> 1024, m |-> 65537]}
Bools == {TRUE, FALSE}
Times == {[sec |-> 0, nsec |-> 0], [sec |-> 1, nsec |-> 5]}
Strings == {Zeros(0), hi, hello, world}

Arrays ==
    { Array(Int32Type, <<IntV(1), IntV(2)>>),
      Array(Int32Type, <<IntV(3)>>),
      Array(Int32Type, <<IntV(1), Str(hello)>>),
      Array(Int32Type, <<>>),
      Array(StringType, <<Str(hi)>>),
      Array(StringType, <<Str(world)>>),
      NilArray(Int32Type),
      Array(ArrayType, <<Arr(Array(Int32Type, <<IntV(1)>>))>>) }

Maps ==
    { Map(Int32Type, Int32Type, {Entry(IntV(1), IntV(2))}),
      Map(Int32Type, Int32Type, {Entry(IntV(1), IntV(2)), Entry(IntV(3), IntV(4))}),
      Map(Int32Type, Int32Type, {Entry(IntV(1), Str(hi))}),
      Map(StringType, ArrayType,
          {Entry(Str(hi), Arr(Array(Int32Type, <<IntV(5)>>)))}),
      Map(StringType, ArrayType,
          {Entry(Str(hi), Arr(Array(Int32Type, <<IntV(5), IntV(6)>>)))}),
      NilMap(Int32Type, Int32Type),
      Map(Int32Type, MapType, {}) }

Columns ==
    << Col(Uint32Type, Uint32s), Col(Uint64Type, Uint64s),
       Col(Int32Type, Int32s), Col(Int64Type, Int64s),
       Col(Float32Type, Float32s), Col(Float64Type, Float64s),
       Col(BoolType, Bools), Col(TimeType, Times),
       Col(StringType, Strings), Col(ArrayType, Arrays), Col(MapType, Maps) >>

\* a string that takes a record of two positions to 65532 bytes
nearMax == Zeros(65532 - 10)

NearMaxColumns ==
    << Col(StringType, {hi, nearMax}),
       Col(Uint32Type, {<<10, 0>>, <<65535, 65535>>}),
       Col(ArrayType, {Array(Int32Type, <<IntV(1), IntV(2)>>),
                       Array(StringType, <<Str(hi)>>)}) >>

\* the orders a range loop may visit the entries of a Go map in
Orders(data) ==
    {o \in [1..Cardinality(data) -> data] : \A e \in data : \E i \in DOMAIN o : o[i] = e}

Positions == DOMAIN ptype

----------------------------------------------------------------------------
(* The record state machine: NewRecord(N), then setter calls; position p   *)
(* is always set through the setter of ptype[p].t.                         *)

NoCall == [op |-> "NewRecord", pos |-> 0, val |-> Val("none", 0), err |-> NoErr]

NoRecord == [b |-> Zeros(0), n |-> 0, ok |-> TRUE]

NoPageCall ==
    [op |-> "NewPage", slot |-> 0, r |-> NoRecord, addr |-> NoAddr,
     err |-> NoErr]

\* NewPage(), no call made on it
PageIdle ==
    /\ page = NewPage
    /\ pres = NoPageCall
    /\ held = <<>>
    /\ calls = 0

\* the file ID that the forwarding sentinel of a slot entry takes
ReservedFileID == 65535

FileIDs == {1, ReservedFileID}

NoFileCall ==
    [op |-> "none", id |-> 0, pages |-> <<>>, pageNum |-> 0, numPages |-> 0,
     out |-> <<>>, err |-> NoErr, prev |-> <<"none", NoErr>>]

\* what the caller wrote: the pages below n hold zeros unless d says otherwise
Written(n, d) == [n |-> n, d |-> d]

NothingWritten == Written(0, [k \in {} |-> 0])

\* no database file on disk, no handle
FileIdle ==
    /\ files = [id \in FileIDs |-> NoFile]
    /\ handle = NoHandle
    /\ fres = NoFileCall
    /\ wrote = [id \in FileIDs |-> NothingWritten]
    /\ durable = [id \in FileIDs |-> [n |-> -1, clean |-> FALSE]]
    /\ fcalls = 0

\* NewRecord(n) for 1 <= n <= MaxN, the positions holding columns of cols;
\* positions being interchangeable, the columns are taken in ascending order
MapKeys == {1, 2}

NoMapCall == [op |-> "NewLPHashMap", key |-> 0, value |-> "", out |-> "", err |-> NoErr]

\* NewLPHashMap(1), no call made on it
MapIdle ==
    /\ hm = NewLPHashMap(1)
    /\ hseed = [k \in MapKeys |-> 0]
    /\ hres = NoMapCall
    /\ popped = {}
    /\ hcalls = 0

InitWith(cols) ==
    /\ \E n \in 1..MaxN : \E ix \in [0..(n - 1) -> DOMAIN cols] :
          /\ \A p \in DOMAIN ix : p > 0 => ix[p - 1] <= ix[p]
          /\ ptype = [p \in DOMAIN ix |-> cols[ix[p]]]
    /\ rec = NewRecord(Cardinality(DOMAIN ptype))
    /\ res = NoCall
    /\ setOk = {}
    /\ wasted = 0
    /\ reserved = [p \in DOMAIN ptype |-> 0]
    /\ PageIdle
    /\ FileIdle
    /\ MapIdle

Init == InitWith(Columns)

\* the bookkeeping common to all setter calls returning r = [R, err];
\* nonNil tells whether the call carried content
Called(op, p, val, r, nonNil) ==
    LET grewOnly == r.R.n > rec.n /\ offsetForPosition(r.R, p) = 0
    IN  /\ rec.ok
        /\ grewOnly => wasted < MaxWasted
        /\ rec' = r.R
        /\ res' = [op |-> op, pos |-> p, val |-> val,
                   err |-> IF r.R.ok THEN r.err ELSE Err("panic", 0, 0)]
        /\ setOk' = IF r.R.ok /\ r.err = NoErr /\ nonNil
                    THEN setOk \cup {p} ELSE setOk
        /\ wasted' = IF grewOnly THEN wasted + 1 ELSE wasted
        /\ reserved' = IF offsetForPosition(rec, p) = 0 /\ ~grewOnly
                       THEN [reserved EXCEPT ![p] = r.R.n - rec.n]
                       ELSE reserved
        /\ UNCHANGED ptype
        /\ UNCHANGED pageVars
        /\ UNCHANGED fileVars
    /\ UNCHANGED mapVars

OfType(t) == {p \in Positions : ptype[p].t = t}

SetUint32Call ==
    \E p \in OfType(Uint32Type) : \E v \in ptype[p].vals :
        Called("SetUint32", p, Val("uint32", v), SetUint32(rec, p, v), TRUE)

SetUint64Call ==
    \E p \in OfType(Uint64Type) : \E v \in ptype[p].vals :
        Called("SetUint64", p, Val("uint64", v), SetUint64(rec, p, v), TRUE)

SetInt32Call ==
    \E p \in OfType(Int32Type) : \E v \in ptype[p].vals :
        Called("SetInt32", p, Val("int32", v), SetInt32(rec, p, v), TRUE)

SetInt64Call ==
    \E p \in OfType(Int64Type) : \E v \in ptype[p].vals :
        Called("SetInt64", p, Val("int64", v), SetInt64(rec, p, v), TRUE)

SetFloat32Call ==
    \E p \in OfType(Float32Type) : \E v \in ptype[p].vals :
        Called("SetFloat32", p, Val("float32", v), SetFloat32(rec, p, v), TRUE)

SetFloat64Call ==
    \E p \in OfType(Float64Type) : \E v \in ptype[p].vals :
        Called("SetFloat64", p, Val("float64", v), SetFloat64(rec, p, v), TRUE)

SetBoolCall ==
    \E p \in OfType(BoolType) : \E v \in ptype[p].vals :
        Called("SetBool", p, Val("bool", v), SetBool(rec, p, v), TRUE)

SetTimeCall ==
    \E p \in OfType(TimeType) : \E v \in ptype[p].vals :
        Called("SetTime", p, Val("time", v), SetTime(rec, p, v), TRUE)

SetStringCall ==
    \E p \in OfType(StringType) : \E v \in ptype[p].vals :
        Called("SetString", p, Str(v), SetString(rec, p, v), TRUE)

SetArrayCall ==
    \E p \in OfType(ArrayType) : \E a \in ptype[p].vals :
        Called("SetArray", p, Arr(a), SetArray(rec, p, a), ~a.isNil)

SetMapCall ==
    \E p \in OfType(MapType) : \E m \in ptype[p].vals :
        \E sized \in Orders(m.data), written \in Orders(m.data) :
            Called("SetMap", p, Val("map", m),
                   SetMap(rec, p, m, sized, written), ~m.isNil)

Next ==
    \/ SetUint32Call
    \/ SetUint64Call
    \/ SetInt32Call
    \/ SetInt64Call
    \/ SetFloat32Call
    \/ SetFloat64Call
    \/ SetBoolCall
    \/ SetTimeCall
    \/ SetStringCall
    \/ SetArrayCall
    \/ SetMapCall

Spec == Init /\ [][Next]_vars

\* records that grow past the 16-bit length: strings, arrays and a uint32
InitNearMax == InitWith(NearMaxColumns)

NextNearMax ==
    \/ SetUint32Call
    \/ SetStringCall
    \/ SetArrayCall

SpecNearMax == InitNearMax /\ [][NextNearMax]_vars

\* strings next to arrays of strings, whose overwrites reach past their span
StringColumns ==
    << Col(StringType, {hi, hello, world}),
       Col(ArrayType, {Array(StringType, <<Str(hi)>>),
                       Array(StringType, <<Str(world)>>),
                       Array(Int32Type, <<IntV(1), Str(hello)>>)}) >>

InitStrings == InitWith(StringColumns)

NextStrings ==
    \/ SetStringCall
    \/ SetArrayCall

SpecStrings == InitStrings /\ [][NextStrings]_vars

\* strings at the boundary of the 16-bit length prefix: the longest string
\* a prefix can count, and the shortest it cannot
MaxStringLength == 65535

longest == SetByte(Zeros(MaxStringLength), 0, 104)
tooLong == SetByte(Zeros(MaxStringLength + 1), 0, 104)

LongStringColumns ==
    << Col(StringType, {hi, longest, tooLong}),
       Col(Uint32Type, {<<10, 0>>, <<65535, 65535>>}),
       Col(ArrayType, {Array(StringType, <<Str(hi)>>),
                       Array(StringType, <<Str(longest)>>)}) >>

InitLongStrings == InitWith(LongStringColumns)

NextLongStrings ==
    \/ SetUint32Call
    \/ SetStringCall
    \/ SetArrayCall

SpecLongStrings == InitLongStrings /\ [][NextLongStrings]_vars

\* arrays and maps whose declared types SetArray and SetMap reject, next to
\* ones they accept, with and without contents
DeclaredTypeColumns ==
    << Col(ArrayType,
           {Array(Int32Type, <<IntV(1), IntV(2)>>),
            Array(Int32Type, <<IntV(3)>>),
            Array(ArrayType, <<Arr(Array(Int32Type, <<IntV(1)>>))>>),
            Array(MapType, <<IntV(1)>>),
            Array(MapType, <<>>),
            NilArray(ArrayType),
            NilArray(MapType),
            NilArray(Int32Type)}),
       Col(MapType,
           {Map(Int32Type, Int32Type, {Entry(IntV(1), IntV(2))}),
            Map(ArrayType, Int32Type, {}),
            Map(MapType, Int32Type, {Entry(IntV(1), IntV(2))}),
            Map(Int32Type, MapType, {Entry(IntV(1), IntV(2))}),
            Map(ArrayType, MapType, {}),
            NilMap(MapType, Int32Type),
            NilMap(Int32Type, MapType),
            NilMap(Int32Type, Int32Type)}) >>

InitDeclaredTypes == InitWith(DeclaredTypeColumns)

NextDeclaredTypes ==
    \/ SetArrayCall
    \/ SetMapCall

SpecDeclaredTypes == InitDeclaredTypes /\ [][NextDeclaredTypes]_vars

----------------------------------------------------------------------------
(* The page state machine: NewPage(), then AddRecord, UpdateRecord,        *)
(* DeleteRecord and SetForwardedAddress calls on the slots handed out.     *)
(* The records are built with the record setters; recM is what a failed    *)
(* SetArray leaves behind, longer than its length field.                   *)

MaxSlots == 2
MaxCalls == 5

recE == NewRecord(1)
recB ==
    SetUint64(SetUint64(NewRecord(2), 0, <<1, 2, 3, 4>>).R, 1,
              <<5, 6, 7, 8>>).R
recM ==
    SetArray(NewRecord(2), 0, Array(Int32Type, <<IntV(1), Str(hello)>>)).R
recBig == SetString(NewRecord(1), 0, Zeros(4082)).R

Records == {recE, recB, recM, recBig}

Addresses ==
    {[FileID |-> 0, PageNum |-> <<1, 0>>, SlotNum |-> 2],
     [FileID |-> 0, PageNum |-> <<0, 0>>, SlotNum |-> 2]}

\* the slot numbers AddRecord has handed out
Slots == {s - 1 : s \in DOMAIN held}

Held(st, r, addr) == [st |-> st, r |-> r, addr |-> addr, since |-> {}]

\* held after a call op on slot slotNum (-1: on no slot) that leaves the
\* slot as e
Touch(slotNum, op, e) ==
    [t \in DOMAIN held |->
        IF t = slotNum + 1 THEN e
        ELSE [held[t] EXCEPT !.since = @ \cup {op}]]

RecordIdle ==
    /\ rec = NewRecord(1)
    /\ ptype = [p \in {0} |-> Columns[1]]
    /\ res = NoCall
    /\ setOk = {}
    /\ wasted = 0
    /\ reserved = [p \in {0} |-> 0]

InitPage == RecordIdle /\ PageIdle /\ FileIdle /\ MapIdle

\* the bookkeeping common to all page calls, of which at most limit are made
PageCalledWithin(limit, op, slotNum, r, addr, P, err, h) ==
    /\ page.ok
    /\ calls < limit
    /\ page' = P
    /\ pres' = [op |-> op, slot |-> slotNum, r |-> r, addr |-> addr,
                err |-> IF P.ok THEN err ELSE Err("panic", 0, 0)]
    /\ held' = h
    /\ calls' = calls + 1
    /\ UNCHANGED recordVars
    /\ UNCHANGED fileVars
    /\ UNCHANGED mapVars

PageCalled(op, slotNum, r, addr, P, err, h) ==
    PageCalledWithin(MaxCalls, op, slotNum, r, addr, P, err, h)

AddRecordCall ==
    \E r \in Records :
        LET done(a) ==
                PageCalled("AddRecord", a.slot, r, NoAddr, a.P, a.err,
                           IF a.P.ok /\ a.err = NoErr
                           THEN Append(Touch(-1, "AddRecord", NoRecord),
                                       Held("added", r, NoAddr))
                           ELSE Touch(-1, "AddRecord", NoRecord))
        IN  Len(held) < MaxSlots /\ done(AddRecord(page, r))

UpdateRecordCall ==
    \E s \in Slots : \E r \in Records :
        LET was == held[s + 1]
            done(u) ==
                PageCalled("UpdateRecord", s, r, u.addr, u.P, u.err,
                           Touch(s, "UpdateRecord",
                                 IF was.st \in {"deleted", "forwarded"} THEN was
                                 ELSE IF u.P.ok /\ u.err = NoErr /\ u.addr = NoAddr
                                 THEN Held("updated", r, NoAddr)
                                 ELSE Held("kept", was.r, NoAddr)))
        IN  done(UpdateRecord(page, s, r))

DeleteRecordCall ==
    \E s \in Slots :
        PageCalled("DeleteRecord", s, NoRecord, NoAddr, DeleteRecord(page, s),
                   NoErr,
                   Touch(s, "DeleteRecord", Held("deleted", NoRecord, NoAddr)))

SetForwardedAddressCall ==
    \E s \in Slots : \E addr \in Addresses :
        PageCalled("SetForwardedAddress", s, NoRecord, addr,
                   SetForwardedAddress(page, s, addr), NoErr,
                   Touch(s, "SetForwardedAddress",
                         Held("forwarded", NoRecord, addr)))

NextPage ==
    \/ AddRecordCall
    \/ UpdateRecordCall
    \/ DeleteRecordCall
    \/ SetForwardedAddressCall

SpecPage == InitPage /\ [][NextPage]_vars

\* Filling a page: the 24-byte record of the page full test is added to a
\* new page S3Records times and once more; the slot numbers are not kept.
S3Records == 255

thisIsARecord ==
    Bytes(<<116, 104, 105, 115, 32, 105, 115, 32, 97, 32, 114, 101, 99, 111,
            114, 100>>)

rec24 == SetString(NewRecord(1), 0, thisIsARecord).R

S3AddRecordCall ==
    LET done(a) ==
            PageCalledWithin(S3Records + 1, "AddRecord", a.slot, rec24, NoAddr,
                             a.P, a.err, held)
    IN  done(AddRecord(page, rec24))

NextS3 == S3AddRecordCall

SpecS3 == InitPage /\ [][NextS3]_vars

\* The forwarded address test: one record is added to a new page and its
\* slot is forwarded, to addresses that take every field to both ends of
\* its range.
MaxForwardCalls == 3

rec2048 == SetUint32(NewRecord(4), 0, <<2048, 0>>).R

FieldEnds == {0, 1, 65535}

ForwardAddresses ==
    {[FileID |-> f, PageNum |-> <<low, high>>, SlotNum |-> n] :
        f \in FieldEnds, low \in FieldEnds, high \in FieldEnds,
        n \in FieldEnds}

ForwardAddRecordCall ==
    LET done(a) ==
            PageCalledWithin(MaxForwardCalls, "AddRecord", a.slot, rec2048,
                             NoAddr, a.P, a.err,
                             Append(held, Held("added", rec2048, NoAddr)))
    IN  held = <<>> /\ done(AddRecord(page, rec2048))

ForwardCall ==
    \E s \in Slots : \E addr \in ForwardAddresses :
        PageCalledWithin(MaxForwardCalls, "SetForwardedAddress", s, NoRecord,
                         addr, SetForwardedAddress(page, s, addr), NoErr,
                         Touch(s, "SetForwardedAddress",
                               Held("forwarded", NoRecord, addr)))

NextForward ==
    \/ ForwardAddRecordCall
    \/ ForwardCall

SpecForward == InitPage /\ [][NextForward]_vars

----------------------------------------------------------------------------
(* The file state machine: NewDatabaseFile, OpenDatabaseFile, Close and    *)
(* DeleteDatabaseFile on a file ID, and MakeDurable, AppendPages,          *)
(* WritePages and ReadPages on the handle held.  The caller holds at most  *)
(* one handle and deletes no file it holds a handle on.  The run starts    *)
(* with no file, or with a file grown to one page short of full by         *)
(* single-page appends of empty pages.                                     *)

MaxFileCalls == 5

pageA == NewPage.b
pageB == AddRecord(NewPage, recE).P.b

PageLists == {<<>>, <<pageA>>, <<pageA, pageB>>}
WriteLists == {<<pageB>>, <<pageB, pageA>>}
WritePageNums == {0, 1, WrapPages}
ReadRanges == {<<0, 1>>, <<0, 2>>, <<0, 3>>, <<1, 0>>, <<WrapPages, 1>>}

NearFull == MaxPagesPerFile - 1

\* the file after n single-page appends of empty pages and MakeDurable
GrownFile(fileID, n) ==
    [MakeDurable([id \in FileIDs |-> CreatedFile],
                 DatabaseFile(fileID, fileID, n)).disk[fileID]
        EXCEPT !.size = n]

InitFile ==
    /\ RecordIdle
    /\ PageIdle
    /\ MapIdle
    /\ \/ FileIdle
       \/ /\ files = [id \in FileIDs |-> IF id = ReservedFileID THEN NoFile
                                       ELSE GrownFile(id, NearFull)]
          /\ handle = NoHandle
          /\ fres = NoFileCall
          /\ wrote = [id \in FileIDs |->
                        IF id = ReservedFileID THEN NothingWritten
                        ELSE Written(NearFull, [k \in {} |-> 0])]
          /\ durable = [id \in FileIDs |->
                          IF id = ReservedFileID
                          THEN [n |-> -1, clean |-> FALSE]
                          ELSE [n |-> NearFull, clean |-> TRUE]]
          /\ fcalls = 0

\* wrote[id] after pages were written to the page numbers from pageNum on
WroteAlso(w, pageNum, pages) ==
    [w EXCEPT !.d = [k \in DOMAIN @ \cup {pageNum + i - 1 : i \in DOMAIN pages}
                        |-> IF k >= pageNum /\ k < pageNum + Len(pages)
                            THEN pages[k - pageNum + 1] ELSE @[k]]]

\* the bookkeeping common to all file calls
FileCalled(call, D, h, err, w, du) ==
    /\ fcalls < MaxFileCalls
    /\ files' = D
    /\ handle' = h
    /\ fres' = [call EXCEPT !.err = err, !.prev = <<fres.op, fres.err>>]
    /\ wrote' = w
    /\ durable' = du
    /\ fcalls' = fcalls + 1
    /\ UNCHANGED recordVars
    /\ UNCHANGED pageVars
    /\ UNCHANGED mapVars

FileCall(op, id) == [NoFileCall EXCEPT !.op = op, !.id = id]

NewDatabaseFileCall ==
    \E id \in FileIDs :
        LET done(r) ==
                FileCalled(FileCall("NewDatabaseFile", id), r.disk, r.dbFile,
                           r.err,
                           IF r.err = NoErr
                           THEN [wrote EXCEPT ![id] = NothingWritten] ELSE wrote,
                           IF r.err = NoErr
                           THEN [durable EXCEPT ![id] = [n |-> 0, clean |-> TRUE]]
                           ELSE durable)
        IN  handle = NoHandle /\ done(NewDatabaseFile(files, id))

OpenDatabaseFileCall ==
    \E id \in FileIDs :
        LET done(r) ==
                FileCalled(FileCall("OpenDatabaseFile", id), files, r.dbFile,
                           r.err, wrote, durable)
        IN  handle = NoHandle /\ done(OpenDatabaseFile(files, id))

\* dbFile.file.Close()
CloseCall ==
    /\ handle # NoHandle
    /\ FileCalled(FileCall("Close", handle.file), files, NoHandle, NoErr, wrote,
                  durable)

DeleteDatabaseFileCall ==
    \E id \in FileIDs :
        LET done(r) ==
                FileCalled(FileCall("DeleteDatabaseFile", id), r.disk, handle,
                           r.err,
                           [wrote EXCEPT ![id] = NothingWritten],
                           IF r.err = NoErr
                           THEN [durable EXCEPT ![id] = [n |-> -1, clean |-> FALSE]]
                           ELSE durable)
        IN  handle = NoHandle /\ done(DeleteDatabaseFile(files, id))

MakeDurableCall ==
    LET done(r) ==
            FileCalled(FileCall("MakeDurable", handle.file), r.disk, handle,
                       r.err, wrote,
                       [durable EXCEPT ![handle.file] =
                           [n |-> handle.NumPages, clean |-> TRUE]])
    IN  handle # NoHandle /\ done(MakeDurable(files, handle))

AppendPagesCall ==
    \E pages \in PageLists :
        LET done(r) ==
                FileCalled([FileCall("AppendPages", handle.file)
                               EXCEPT !.pages = pages, !.out = r.pageNumbers],
                           r.disk, r.dbFile, r.err,
                           IF r.err = NoErr
                           THEN [wrote EXCEPT ![handle.file] =
                                    WroteAlso(@, handle.NumPages, pages)]
                           ELSE wrote,
                           IF r.err = NoErr
                           THEN [durable EXCEPT ![handle.file].clean = FALSE]
                           ELSE durable)
        IN  handle # NoHandle /\ done(AppendPages(files, handle, pages))

WritePagesCall ==
    \E pages \in WriteLists : \E pageNum \in WritePageNums :
        LET done(r) ==
                FileCalled([FileCall("WritePages", handle.file)
                               EXCEPT !.pages = pages, !.pageNum = pageNum,
                                      !.numPages = r.numWritten],
                           r.disk, handle, r.err,
                           [wrote EXCEPT ![handle.file] =
                                WroteAlso(@, pageNum, pages)],
                           [durable EXCEPT ![handle.file].clean = FALSE])
        IN  handle # NoHandle /\ done(WritePages(files, handle, pages, pageNum))

ReadPagesCall ==
    \E range \in ReadRanges :
        LET done(r) ==
                FileCalled([FileCall("ReadPages", handle.file)
                               EXCEPT !.pageNum = range[1],
                                      !.numPages = range[2], !.out = r.pages],
                           files, handle, r.err, wrote, durable)
        IN  handle # NoHandle
            /\ done(ReadPages(files, handle, range[1], range[2]))

NextFile ==
    \/ NewDatabaseFileCall
    \/ OpenDatabaseFileCall
    \/ CloseCall
    \/ DeleteDatabaseFileCall
    \/ MakeDurableCall
    \/ AppendPagesCall
    \/ WritePagesCall
    \/ ReadPagesCall

SpecFile == InitFile /\ [][NextFile]_vars

----------------------------------------------------------------------------
(* The hash map state machine: NewLPHashMap(n), then Set, Pop, Clear, Has, *)
(* Get and Length calls.  The seed of the map's hash is drawn when the map *)
(* is made, so the hashes of the keys are any values; their residues for   *)
(* the numbers of slots the map goes through are what the calls depend on. *)

MaxMapCalls == 6

InitialSlots == {1, 2}
HashValues == 0..3
MapValues == {"1", "2"}

InitMap ==
    /\ RecordIdle
    /\ PageIdle
    /\ FileIdle
    /\ \E n \in InitialSlots : hm = NewLPHashMap(n)
    /\ hseed \in [MapKeys -> HashValues]
    /\ hres = NoMapCall
    /\ popped = {}
    /\ hcalls = 0

\* the bookkeeping common to all hash map calls
MapCalled(op, key, value, h, out, err, gone) ==
    /\ hcalls < MaxMapCalls
    /\ hm' = h
    /\ hres' = [op |-> op, key |-> key, value |-> value, out |-> out, err |-> err]
    /\ popped' = gone
    /\ hcalls' = hcalls + 1
    /\ UNCHANGED hseed
    /\ UNCHANGED recordVars
    /\ UNCHANGED pageVars
    /\ UNCHANGED fileVars

SetCall ==
    \E key \in MapKeys : \E value \in MapValues :
        MapCalled("Set", key, value, LPHashMapSet(hm, hseed, key, value), "",
                  NoErr, popped \ {key})

PopCall ==
    \E key \in MapKeys :
        LET done(r) ==
                MapCalled("Pop", key, "", r.h, r.value, r.err,
                          IF r.err = NoErr THEN popped \cup {key} ELSE popped)
        IN  done(LPHashMapPop(hm, hseed, key))

ClearCall == MapCalled("Clear", 0, "", LPHashMapClear(hm), "", NoErr, popped)

HasCall ==
    \E key \in MapKeys :
        MapCalled("Has", key, "", hm, LPHashMapHas(hm, hseed, key), NoErr, popped)

GetCall ==
    \E key \in MapKeys :
        LET done(r) == MapCalled("Get", key, "", hm, r.value, r.err, popped)
        IN  done(LPHashMapGet(hm, hseed, key))

LengthCall == MapCalled("Length", 0, "", hm, LPHashMapLength(hm), NoErr, popped)

NextMap ==
    \/ SetCall
    \/ PopCall
    \/ ClearCall
    \/ HasCall
    \/ GetCall
    \/ LengthCall

SpecMap == InitMap /\ [][NextMap]_vars

----------------
(* Properties *)

\* the last call was a setter that returned nil
Succeeded == res.op # "NewRecord" /\ res.err = NoErr

\* a value as the codec hands it back: Go's int and uint are stored, and
\* read, as int32 and uint32
RECURSIVE AsRead(_)
AsRead(val) ==
    CASE val.k = "int" -> Val("int32", val.v)
      [] val.k = "uint" -> Val("uint32", SubSeq(val.v, 1, 2))
      [] val.k = "array" ->
            Arr([val.v EXCEPT !.vals = [i \in DOMAIN @ |-> AsRead(@[i])]])
      [] val.k = "map" ->
            Val("map", [val.v EXCEPT !.data =
                           {Entry(AsRead(e.key), AsRead(e.val)) : e \in @}])
      [] OTHER -> val

\* the getter matching the last call returns (isNull = false, the value set)
ReadsBack ==
    LET read(g) == /\ ~g.panic
                   /\ ~g.isNull
                   /\ g.err = NoErr
                   /\ g.value = AsRead(res.val)
    IN  read(Get(rec, res.pos, ptype[res.pos].t))

PrimitiveSetters ==
    {"SetUint32", "SetUint64", "SetInt32", "SetInt64", "SetFloat32",
     "SetFloat64", "SetBool", "SetTime", "SetString"}

\* C1: immediately after a successful set_T(p, v) of a fixed-width type or
\* string, on a null position or over a value of the same type, the matching
\* get_T(p) returns (isNull = false, v).
C1_PrimitiveRoundTrip ==
    (res.op \in PrimitiveSetters /\ res.err = NoErr) => ReadsBack

\* C2: after a successful SetArray(p, a) or SetMap(p, m) with non-nil
\* contents, on a null position or over an array (map), GetArray(p) or
\* GetMap(p) returns isNull = false, no error, the same element (key and
\* value) types and the same elements in order (the same key-value mapping).
C2_ContainerRoundTrip ==
    (res.op \in {"SetArray", "SetMap"} /\ res.err = NoErr /\ ~res.val.v.isNil)
        => ReadsBack

\* C3: after every setter call that returns success, the 16-bit length L
\* stored in bytes [0..2) equals the physical length of the record buffer,
\* whatever the outcome of the calls before it.
C3_RecordLength == Succeeded => Length(rec) = rec.n

\* the length prefix of the string stored at position p; -1 if unreadable
StoredLength(R, p) ==
    Uint16At(R, offsetForPosition(R, p), U16(offsetForPosition(R, p) + 2))

EncodedSize(val) ==
    CASE val.k = "string" -> bytesNeededForString(val.v)
      [] val.k = "array" -> bytesNeededForArray(val.v).n
      [] val.k = "map" ->
            bytesNeededForMap(val.v, CHOOSE o \in Orders(val.v.data) : TRUE).n

\* C5: a SetString, SetArray or SetMap on a non-null position with matching
\* types succeeds exactly when the encoding of the new value fits in the
\* span reserved when the position was first set, after any history of
\* overwrites.
C5_ReservedSpan ==
    [][(/\ \/ res'.op = "SetString"
           \/ res'.op \in {"SetArray", "SetMap"} /\ ~res'.val.v.isNil
        /\ offsetForPosition(rec, res'.pos) # 0
        /\ res'.err.kind \in {"nil", "WriteOverflow"})
       => (res'.err = NoErr <=>
              EncodedSize(res'.val) <= reserved[res'.pos])]_vars

\* C6: NewRecord(N) has length 4 + 2N; in every reachable state a getter
\* reports a position null iff its offset-table entry is 0 iff no setter
\* with non-nil content has succeeded on it, so that a non-null position
\* never reads as null again.
C6_NullCharacterisation ==
    /\ res.op = "NewRecord" =>
          rec.n = 4 + 2 * Cardinality(Positions) /\ Length(rec) = rec.n
    /\ rec.ok => \A p \in Positions :
          LET reportsNull(g) == ~g.panic /\ g.isNull
          IN  /\ offsetForPosition(rec, p) = 0 <=> p \notin setOk
              /\ reportsNull(Get(rec, p, ptype[p].t)) <=> p \notin setOk

\* the result of GetRecord that hands back the bytes of r and nothing else
Returns(g, r) ==
    /\ ~g.panic
    /\ g.hasRec
    /\ g.rec = RecordBytes(r)
    /\ g.addr = NoAddr
    /\ g.err = NoErr

\* a page call has just been made and has returned
PageStep == calls' = calls + 1 /\ page'.ok

\* C7: for every slot s a successful AddRecord(r) returned, GetRecord(s)
\* returns a record byte-identical to r, no forwarded address and no error,
\* also after later successful or failed AddRecord calls, as long as slot s
\* is not updated, deleted or forwarded.
C7_AddThenGet ==
    page.ok =>
        \A s \in Slots :
            (held[s + 1].st = "added" /\ held[s + 1].since \subseteq {"AddRecord"})
                => Returns(GetRecord(page, s), held[s + 1].r)

\* C8: AddRecord, UpdateRecord, DeleteRecord and SetForwardedAddress applied
\* to slot s never change the result of GetRecord(s') for any other existing
\* slot s'.
C8_SlotStability ==
    [][PageStep =>
          \A t \in Slots \ (IF pres'.op = "AddRecord" THEN {} ELSE {pres'.slot}) :
              GetRecord(page', t) = GetRecord(page, t)]_vars

RecordDeleted(g, slotNum) == g.err = Err("RecordDeleted", slotNum, 0)

\* C9: after DeleteRecord(s), GetRecord(s) and UpdateRecord(s, r) both return
\* RecordDeleted{s}, and keep returning it after later AddRecord, UpdateRecord
\* or DeleteRecord calls on other slots; DeleteRecord changes neither
\* numSlots nor freeOffset nor any record bytes.
C9_Tombstone ==
    [][PageStep =>
          /\ \A s \in Slots :
                (held'[s + 1].st = "deleted"
                 /\ held'[s + 1].since
                        \subseteq {"AddRecord", "UpdateRecord", "DeleteRecord"})
                    => /\ RecordDeleted(GetRecord(page', s), s)
                       /\ \A r \in Records :
                              RecordDeleted(UpdateRecord(page', s, r), s)
          /\ pres'.op = "DeleteRecord"
                => /\ getNumSlots(page') = getNumSlots(page)
                   /\ getFreeOffset(page') = getFreeOffset(page)
                   /\ Slice(page'.b, 4 + 8 * getNumSlots(page), PageSize)
                        = Slice(page.b, 4 + 8 * getNumSlots(page), PageSize)]_vars

\* the length stored at the local offset slot slotNum holds; -1 if none
StoredRecordLength(P, slotNum) ==
    Uint16At(P, LocalOffset(getSlot(P, slotNum)),
             LocalOffset(getSlot(P, slotNum)) + 2)

\* C10: UpdateRecord(s, r) on a local slot whose stored record length is
\* oldLen, with len(r) <= oldLen, returns no error and no address, leaves the
\* slot entry, numSlots and freeOffset unchanged, and afterwards GetRecord(s)
\* returns a record byte-identical to r.
C10_InPlaceUpdate ==
    [][(/\ PageStep
        /\ pres'.op = "UpdateRecord"
        /\ held[pres'.slot + 1].st \in {"added", "updated", "kept"}
        /\ pres'.r.n <= StoredRecordLength(page, pres'.slot))
          => /\ pres'.err = NoErr
             /\ pres'.addr = NoAddr
             /\ getSlot(page', pres'.slot) = getSlot(page, pres'.slot)
             /\ getNumSlots(page') = getNumSlots(page)
             /\ getFreeOffset(page') = getFreeOffset(page)
             /\ Returns(GetRecord(page', pres'.slot), pres'.r)]_vars

\* an UpdateRecord call on a slot the caller holds a record in has returned
LocalUpdate ==
    /\ PageStep
    /\ pres'.op = "UpdateRecord"
    /\ held[pres'.slot + 1].st \in {"added", "updated", "kept"}
    /\ StoredRecordLength(page, pres'.slot) # -1

\* the end of the slot directory once it holds one more slot
NewHeaderEnd(P) == 4 + 8 * (getNumSlots(P) + 1)

\* C11: UpdateRecord(s, r) on a local slot with len(r) greater than the
\* stored record length, when the page has room, copies r to
\* [freeOffset - len(r), freeOffset), rewrites slot s with that new, strictly
\* smaller local offset, lowers freeOffset by len(r), leaves numSlots
\* unchanged, and afterwards GetRecord(s) returns a record byte-identical to r.
C11_RelocatingUpdate ==
    [][(/\ LocalUpdate
        /\ pres'.r.n > StoredRecordLength(page, pres'.slot)
        /\ getFreeOffset(page) - pres'.r.n >= NewHeaderEnd(page))
          => /\ pres'.err = NoErr
             /\ pres'.addr = NoAddr
             /\ Slice(page'.b, getFreeOffset(page) - pres'.r.n, getFreeOffset(page))
                    = RecordBytes(pres'.r)
             /\ getSlot(page', pres'.slot)
                    = slotEntry(getFreeOffset(page) - pres'.r.n)
             /\ LocalOffset(getSlot(page', pres'.slot))
                    < LocalOffset(getSlot(page, pres'.slot))
             /\ getFreeOffset(page') = getFreeOffset(page) - pres'.r.n
             /\ getNumSlots(page') = getNumSlots(page)
             /\ Returns(GetRecord(page', pres'.slot), pres'.r)]_vars

\* an UpdateRecord call on a slot the caller holds a record in has been
\* made, whether it returned or panicked
LocalUpdateCall ==
    /\ calls' = calls + 1
    /\ pres'.op = "UpdateRecord"
    /\ held[pres'.slot + 1].st \in {"added", "updated", "kept"}
    /\ StoredRecordLength(page, pres'.slot) # -1

\* C12: when UpdateRecord(s, r) needs relocation and
\* freeOffset - len(r) < 4 + 8*(numSlots + 1), it returns PageFull and leaves
\* the page completely unchanged.
C12_UpdateDoesNotFit ==
    [][(/\ LocalUpdateCall
        /\ pres'.r.n > StoredRecordLength(page, pres'.slot)
        /\ getFreeOffset(page) - pres'.r.n < NewHeaderEnd(page))
          => /\ pres'.err.kind = "PageFull"
             /\ page' = page]_vars

\* the result of GetRecord that hands back the forwarded address addr alone
Forwards(g, addr) ==
    /\ ~g.panic
    /\ ~g.hasRec
    /\ g.addr = addr
    /\ g.err = NoErr

\* C13: after SetForwardedAddress(s, addr), GetRecord(s) returns (no record,
\* addr) with no error and UpdateRecord(s, r) returns addr without modifying
\* the page.
C13_Forwarding ==
    [][(calls' = calls + 1 /\ pres'.op = "SetForwardedAddress")
          => /\ page'.ok
             /\ Forwards(GetRecord(page', pres'.slot), pres'.addr)
             /\ \A r \in Records :
                    UpdateRecord(page', pres'.slot, r)
                        = [P |-> page', addr |-> pres'.addr, err |-> NoErr]]_vars

\* C14: AddRecord(r) returns PageFull{available: freeOffset -
\* (4 + 8*(numSlots+1)), needed: len(r)} whenever freeOffset - len(r) <
\* 4 + 8*(numSlots+1) in integer arithmetic, and then leaves the page
\* unchanged; otherwise it succeeds.
C14_PageFullRule ==
    [][(calls' = calls + 1 /\ pres'.op = "AddRecord")
          => IF getFreeOffset(page) - pres'.r.n < NewHeaderEnd(page)
             THEN /\ pres'.err = Err("PageFull",
                                     U16(getFreeOffset(page) - NewHeaderEnd(page)),
                                     pres'.r.n)
                  /\ page' = page
             ELSE /\ pres'.err = NoErr
                  /\ page'.ok]_vars

\* the first S3Records calls of the page full scenario all succeed
S3Fills ==
    (pres.op = "AddRecord" /\ calls <= S3Records)
        => (pres.err = NoErr /\ pres.slot = calls - 1 /\ page.ok)

\* C15 as stated: 255 successive AddRecord calls of one 24-byte record
\* succeed, and the 256th returns PageFull{available: 0, needed: 24}.
C15_S3AsStated ==
    /\ S3Fills
    /\ (pres.op = "AddRecord" /\ calls = S3Records + 1)
          => pres.err = Err("PageFull", 0, 24)

\* C15, amended: 255 successive AddRecord calls of one 24-byte record
\* succeed, and the 256th returns PageFull{available: 20, needed: 24}: 20
\* bytes lie between the end of the directory of 256 slots and the free
\* offset.
C15_S3 ==
    /\ S3Fills
    /\ (pres.op = "AddRecord" /\ calls = S3Records + 1)
          => (pres.err = Err("PageFull", 20, 24) /\ getNumSlots(page) = S3Records)

C15_Witness ==
    /\ calls = S3Records + 1
    /\ pres.op = "AddRecord"
    /\ pres.r = rec24
    /\ Length(rec24) = 24
    /\ pres.err.kind = "PageFull"
    /\ getNumSlots(page) = S3Records

\* a step that is a file call of the given name
FileStep(op) == fcalls' = fcalls + 1 /\ fres'.op = op

\* C16: on a handle whose NumPages is n, a successful AppendPages of k pages
\* (k >= 0) writes page i of the list at page number n + i, returns the page
\* numbers n .. n + k - 1 and leaves NumPages equal to n + k.
C16_AppendAccounting ==
    [][FileStep("AppendPages") /\ fres'.err = NoErr =>
        LET n == handle.NumPages
            k == Len(fres'.pages)
        IN  /\ \A i \in 1..k :
                PageReadAt(files'[handle.file], n + i - 1) =
                    [page |-> fres'.pages[i], eof |-> FALSE]
            /\ fres'.out = [i \in 1..k |-> n + i - 1]
            /\ handle'.NumPages = n + k]_vars

\* the bytes the caller wrote last to page number k of a file it wrote w to
WasWritten(w, k) == k \in DOMAIN w.d \/ k < w.n
LastWritten(w, k) == IF k \in DOMAIN w.d THEN w.d[k] ELSE Zeros(PageSize)

\* the handle was opened after a successful MakeDurable with no page written
\* in between; durable[id].n is NumPages at the time of that MakeDurable
Reopened ==
    /\ fres.op = "OpenDatabaseFile"
    /\ fres.err = NoErr
    /\ durable[fres.id].clean

\* the caller of WritePages wrote no page at or beyond the durable count
WroteBelowCount == \A k \in DOMAIN wrote[fres.id].d : k < durable[fres.id].n

\* the page numbers below count that are not pages of zeros both on disk
\* and in what the caller wrote; the others read back as the zeros written
PagesToCompare(f, w, count) ==
    {k \in DOMAIN f.d \cup DOMAIN w.d \cup (w.n .. (count - 1)) : k < count}

\* C17: after AppendPages and WritePages calls and a successful MakeDurable,
\* closing and reopening the file gives a handle whose NumPages is the
\* NumPages at the time of MakeDurable, and ReadPages returns, for every page
\* number below that count, the bytes most recently written to that page.
C17_Durability ==
    Reopened /\ WroteBelowCount =>
        /\ handle.NumPages = durable[fres.id].n
        /\ \A k \in PagesToCompare(files[fres.id], wrote[fres.id],
                                  durable[fres.id].n) :
            LET read(r) ==
                    /\ r.err = NoErr
                    /\ WasWritten(wrote[fres.id], k) =>
                           r.pages = <<LastWritten(wrote[fres.id], k)>>
            IN  read(ReadPages(files, handle, k, 1))

\* C18: AppendPages on a handle with NumPages = MaxPagesPerFile returns
\* FileFull and writes nothing, and no AppendPages call writes a page at a
\* page number >= MaxPagesPerFile, so AppendPages never makes a file hold
\* more than MaxPagesPerFile pages.
C18_Capacity ==
    [][FileStep("AppendPages") =>
        /\ handle.NumPages = MaxPagesPerFile =>
               fres'.err = Err("FileFull", 0, 0) /\ files' = files
        /\ \A i \in DOMAIN fres'.out : fres'.out[i] < MaxPagesPerFile
        /\ files'[handle.file].size # files[handle.file].size =>
               files'[handle.file].size <= MaxPagesPerFile]_vars

\* C19: ReadPages(first, count) of one or more pages returns an error and no
\* pages whenever first + count exceeds the number of pages physically
\* present in the file.
C19_ReadPastEnd ==
    /\ fres.op = "ReadPages"
    /\ fres.numPages >= 1
    /\ fres.pageNum + fres.numPages > files[fres.id].size
    => fres.err # NoErr /\ fres.out = <<>>

\* the header of a file as the slice the codec reads
Header(f) == [b |-> f.hdr, n |-> f.hdr.n, ok |-> TRUE]

\* C20: NewDatabaseFile(id) succeeds only if no file with that id exists, and
\* then creates a 6-byte file holding (id, numPages = 0); on an existing file
\* it fails and leaves the file unchanged; OpenDatabaseFile(id) fails if the
\* file does not exist; after DeleteDatabaseFile(id) the file does not exist,
\* so OpenDatabaseFile(id) fails and NewDatabaseFile(id) succeeds again.
C20_Lifecycle ==
    [][LET id == fres'.id
       IN  /\ FileStep("NewDatabaseFile") =>
                /\ fres'.err = NoErr <=> ~files[id].exists
                /\ fres'.err = NoErr =>
                       /\ files'[id].exists
                       /\ files'[id].hdr.n = 6
                       /\ files'[id].size = 0
                       /\ Uint16At(Header(files'[id]), 0, 2) = id
                       /\ ReadUint32(Header(files'[id]), 2) = 0
                       /\ handle' = DatabaseFile(id, id, 0)
                /\ fres'.err # NoErr => files' = files /\ handle' = NoHandle
           /\ FileStep("OpenDatabaseFile") /\ ~files[id].exists =>
                fres'.err # NoErr /\ handle' = NoHandle
           /\ FileStep("DeleteDatabaseFile") =>
                /\ ~files'[id].exists
                /\ OpenDatabaseFile(files', id).err # NoErr
                /\ NewDatabaseFile(files', id).err = NoErr]_vars

\* a file was created again right after it was deleted
C20_Witness ==
    /\ fres.op = "NewDatabaseFile"
    /\ fres.err = NoErr
    /\ fres.prev = <<"DeleteDatabaseFile", NoErr>>
    /\ files[fres.id].hdr.n = 6

\* C21: the file ID 0xFFFF is never assigned: NewDatabaseFile(0xFFFF) is
\* rejected and creates no file.
C21_ReservedFileID ==
    [][FileStep("NewDatabaseFile") /\ fres'.id = ReservedFileID =>
        /\ fres'.err # NoErr
        /\ handle' = NoHandle
        /\ ~files'[ReservedFileID].exists]_vars

\* C22: SetString of a string of length 65535 on a null position succeeds
\* and the string reads back unchanged; SetString of a string of length
\* 65536 or more fails with StringTooLong and modifies nothing.
C22_StringLengthBoundary ==
    [][\A p \in Positions :
        LET s == res'.val.v
            readsBack(g) ==
                ~g.panic /\ ~g.isNull /\ g.err = NoErr /\ g.value = Str(s)
        IN  /\ rec.ok
            /\ res'.op = "SetString"
            /\ res'.pos = p
            /\ offsetForPosition(rec, p) = 0
            /\ <<rec, res>>' # <<rec, res>>
            => /\ s.n = MaxStringLength =>
                    res'.err = NoErr /\ readsBack(GetString(rec', p))
               /\ s.n > MaxStringLength =>
                    res'.err.kind = "StringTooLong" /\ rec' = rec]_vars

\* C23: SetArray with an element type of array or map returns
\* InvalidElementType; SetMap with a key type of array or map returns
\* InvalidKeyType, and otherwise with a value type of map InvalidValueType;
\* in each case the record is unchanged, whether the position was null or not.
C23_DeclaredTypeRejection ==
    [][LET v == res'.val.v
       IN  /\ res'.op = "SetArray" /\ v.et \in {ArrayType, MapType} =>
                res'.err = Err("InvalidElementType", v.et, 0) /\ rec' = rec
           /\ res'.op = "SetMap" /\ v.kt \in {ArrayType, MapType} =>
                res'.err = Err("InvalidKeyType", v.kt, 0) /\ rec' = rec
           /\ res'.op = "SetMap" /\ v.kt \notin {ArrayType, MapType}
                /\ v.vt = MapType =>
                res'.err = Err("InvalidValueType", v.vt, 0) /\ rec' = rec]_vars

\* a declared type was rejected on a position that holds a value
C23_Witness ==
    /\ res.err.kind \in {"InvalidElementType", "InvalidKeyType", "InvalidValueType"}
    /\ offsetForPosition(rec, res.pos) # 0
    /\ ~res.val.v.isNil

\* the declared types SetArray and SetMap accept
ValidArrayTypes(a) == a.et \notin {ArrayType, MapType}
ValidMapTypes(m) == m.kt \notin {ArrayType, MapType} /\ m.vt # MapType

\* C24: SetArray(p, a) with a.Values == nil and SetMap(p, m) with
\* m.Data == nil, with valid declared types, return success and leave the
\* record byte-for-byte unchanged, on a null position and on a non-null one.
C24_NilContentsNoOp ==
    [][LET v == res'.val.v
       IN  \/ res'.op = "SetArray" /\ v.isNil /\ ValidArrayTypes(v)
           \/ res'.op = "SetMap" /\ v.isNil /\ ValidMapTypes(v)
           => res'.err = NoErr /\ rec' = rec]_vars

\* nil contents were set on a position that holds a value
C24_Witness ==
    /\ res.op \in {"SetArray", "SetMap"}
    /\ res.val.v.isNil
    /\ res.err = NoErr
    /\ offsetForPosition(rec, res.pos) # 0

\* the length field and the offset table of a record of the caller's
\* positions
RecordHeader(R) == Slice(R.b, 0, 4 + 2 * Cardinality(Positions))

\* C25: SetArray(p, a) on a non-null position that holds an array with
\* element type t and element count cur returns TypeMismatch if
\* a.ElementType # t; otherwise WriteOverflow{cur, len(a.Values)} if
\* len(a.Values) > cur; otherwise it overwrites the stored array in place,
\* leaving L, the record length and the whole offset table unchanged.
C25_ArrayOverwrite ==
    [][LET a == res'.val.v
           offset == offsetForPosition(rec, res'.pos)
           t == ByteAt(rec.b, offset + 2)
           cur == Uint16At(rec, offset, U16(offset + 2))
       IN  /\ res'.op = "SetArray"
           /\ ~a.isNil
           /\ ValidArrayTypes(a)
           /\ rec.ok
           /\ offset > 0
           /\ offset + 2 < rec.n
           => IF a.et # t
              THEN res'.err = Err("TypeMismatch", t, a.et) /\ rec' = rec
              ELSE IF Len(a.vals) > cur
              THEN /\ res'.err = Err("WriteOverflow", cur, Len(a.vals))
                   /\ rec' = rec
              ELSE /\ rec'.ok
                   /\ rec'.n = rec.n
                   /\ RecordHeader(rec') = RecordHeader(rec)]_vars

\* C26: the slot number a successful AddRecord(r) returns is numSlots before
\* the call and was never handed out before; the call raises numSlots by
\* exactly 1 and lowers freeOffset by exactly len(r).
C26_SlotNumbering ==
    [][(PageStep /\ pres'.op = "AddRecord" /\ pres'.err = NoErr)
          => /\ pres'.slot = getNumSlots(page)
             /\ pres'.slot \notin Slots
             /\ getNumSlots(page') = getNumSlots(page) + 1
             /\ getFreeOffset(page') = getFreeOffset(page) - pres'.r.n]_vars

C28_SetThenGet ==
    hres.op = "Set" =>
        /\ LPHashMapHas(hm, hseed, hres.key)
        /\ LPHashMapGet(hm, hseed, hres.key) = [value |-> hres.value, err |-> NoErr]

\* the keys Has reports present
PresentKeys(h, hash64) == {k \in MapKeys : LPHashMapHas(h, hash64, k)}

\* C29: after any sequence of Set, Pop and Clear calls, Length() equals the
\* number of distinct keys k for which Has(k) is true.
C29_Length == LPHashMapLength(hm) = Cardinality(PresentKeys(hm, hseed))

\* one Pop call, judged against the map before the call
PopStep ==
    (hcalls' = hcalls + 1 /\ hres'.op = "Pop") =>
        IF LPHashMapHas(hm, hseed, hres'.key)
        THEN /\ hres'.err = NoErr
             /\ hres'.out = LPHashMapGet(hm, hseed, hres'.key).value
        ELSE /\ hres'.err = Err("KeyNotFound", hres'.key, 0)
             /\ hm' = hm

\* key k is gone from map h: Has is false, Get and Pop return KeyNotFound
Absent(h, hash64, k) ==
    /\ ~LPHashMapHas(h, hash64, k)
    /\ LPHashMapGet(h, hash64, k).err = Err("KeyNotFound", k, 0)
    /\ LPHashMapPop(h, hash64, k).err = Err("KeyNotFound", k, 0)

\* C30: Pop(k) on a present key returns its value, and from then on Has(k)
\* is false and Get(k) and Pop(k) return KeyNotFound until the next
\* Set(k, _), whatever other keys are set or popped in between; Pop(k) on an
\* absent key returns KeyNotFound and changes nothing.
C30_Pop ==
    [][/\ PopStep
       /\ \A k \in popped' : Absent(hm', hseed', k)]_vars

\* C31: no record setter call at an in-range position ends in a panic: the
\* call either succeeds or returns an error.
C31_NoPanic == res.err.kind # "panic" /\ rec.ok

\* the value of type t decoded at offset o of R; [val, off, err, panic]
DecodedAt(R, o, t) ==
    IF t = ArrayType THEN readArray(R, o)
    ELSE IF t = MapType THEN readMap(R, o)
    ELSE readPrimitive(R, o, t)

\* position p of R, set through the setter of type t, holds a complete
\* encoding inside the payload area
ValidEncoding(R, p, t) ==
    LET o == offsetForPosition(R, p)
        inside(g) == /\ ~g.panic
                     /\ g.err = NoErr
                     /\ o <= g.off
                     /\ g.off <= Length(R)
    IN  /\ 4 + 2 * Cardinality(Positions) <= o
        /\ o < Length(R)
        /\ inside(DecodedAt(R, o, t))

\* C32: after every successful setter, every non-null position p has an
\* offset o_p with 4 + 2N <= o_p < L, and the complete encoding of the value
\* stored at p ends at or before L.
C32_ValidEncoding ==
    Succeeded =>
        \A p \in Positions :
            offsetForPosition(rec, p) # 0 => ValidEncoding(rec, p, ptype[p].t)

\* C33: in every page state reached from NewPage by AddRecord, UpdateRecord,
\* DeleteRecord and SetForwardedAddress on existing slots,
\* 4 + 8*numSlots <= freeOffset <= PageSize.
C33_PageHeader ==
    page.ok =>
        /\ 4 + 8 * getNumSlots(page) <= getFreeOffset(page)
        /\ getFreeOffset(page) <= PageSize

\* slot slotNum holds a local offset: neither the tombstone nor a forwarded
\* address
LocalSlot(P, slotNum) ==
    /\ getSlot(P, slotNum) # <<0, 0, 0, 0>>
    /\ ~isForwardedAddress(getSlot(P, slotNum))

\* C34: in every reachable page state, every slot s < numSlots whose entry
\* is neither the tombstone nor a forwarded address holds an in-page offset
\* e with freeOffset <= e < PageSize, and the record length stored at e is at
\* least 4 and at most PageSize - e.
C34_LocalSlotValidity ==
    page.ok =>
        \A s \in 0..(getNumSlots(page) - 1) :
            LocalSlot(page, s) =>
                LET e == LocalOffset(getSlot(page, s))
                    n == Uint16At(page, e, e + 2)
                IN  /\ getFreeOffset(page) <= e
                    /\ e < PageSize
                    /\ 4 <= n
                    /\ n <= PageSize - e

\* C35: immediately after every successful MakeDurable, the one inside
\* NewDatabaseFile included, the numPages of the on-disk header equals the
\* handle's NumPages and the file holds at least that many pages, after any
\* sequence of AppendPages calls.
C35_HeaderBehindData ==
    [][((FileStep("MakeDurable") \/ FileStep("NewDatabaseFile"))
        /\ fres'.err = NoErr)
       => /\ ReadUint32(Header(files'[handle'.file]), 2) = handle'.NumPages
          /\ files'[handle'.file].size >= handle'.NumPages]_vars

\* AddRecord(r) on page P returns PageFull; such a call leaves P unchanged,
\* so P is also the page after the call
RefusedAsFull(P, r) == AddRecord(P, r).err.kind = "PageFull"

\* C36: across every page operation numSlots never decreases and freeOffset
\* never increases, and once AddRecord has returned PageFull for a record,
\* AddRecord of that record returns PageFull after every later operation.
C36_NoReclamation ==
    [][PageStep =>
          /\ getNumSlots(page') >= getNumSlots(page)
          /\ getFreeOffset(page') <= getFreeOffset(page)
          /\ \A r \in Records :
                RefusedAsFull(page, r) => RefusedAsFull(page', r)]_vars

\* C37: every record setter call that returns an error leaves the record as
\* it was before the call: same buffer length, same L, same offset table and
\* the same value read back from every position.
C37_FailedSetterAtomic ==
    [][(res'.op # "NewRecord" /\ res'.err.kind \notin {"nil", "panic"})
       => /\ rec'.n = rec.n
          /\ Length(rec') = Length(rec)
          /\ RecordHeader(rec') = RecordHeader(rec)
          /\ \A p \in Positions :
                Get(rec', p, ptype[p].t) = Get(rec, p, ptype[p].t)]_vars

\* C38: when each position is only ever set through the setter of one type,
\* a setter call on position p that returns, successful or not, never
\* changes the value the getter of any other position q # p returns.
C38_SetterFrame ==
    [][(res'.op # "NewRecord" /\ res'.err.kind # "panic")
       => \A q \in Positions \ {res'.pos} :
             Get(rec', q, ptype[q].t) = Get(rec, q, ptype[q].t)]_vars

\* the page numbers an appendPages call returned
Returned(call) == {call.out[i] : i \in DOMAIN call.out}

\* C39: page numbers are unique and stable: a page number that an appendPages
\* call returned is not returned again by the next appendPages call on the
\* handle, and that call leaves the bytes of the page as they were.
C39_PageNumbersStable ==
    [][(FileStep("AppendPages") /\ fres.op = "AppendPages")
       => /\ Returned(fres') \cap Returned(fres) = {}
          /\ \A k \in Returned(fres) :
                PageReadAt(files'[handle.file], k)
                    = PageReadAt(files[handle.file], k)]_vars

====
